---- MODULE Spec2Model ----
(***************************************************************************)
(* Model of the command-construction and validation layer of the          *)
(* Proxmox LLM controller (src/controller/app.py):                        *)
(*   - LXCExecSpec._validate_command, the allow-list command validator;   *)
(*   - LXCExecSpec field/model validators and lxc_exec's command join;    *)
(*   - _resolve_ssh_connection, SSHRunner.__init__ and SSHRunner.run,     *)
(*     the SSH connection resolver;                                       *)
(*   - _resolve_bliss_serial and the handlers bliss_adb_connect and       *)
(*     bliss_adb_shell;                                                   *)
(*   - deploy with its template rendering, and create_lxc.                *)
(* Strings are sequences of one-character strings, so that strip(),       *)
(* shlex.split(), split("@", 1) and friends are computed, not assumed.    *)
(***************************************************************************)
EXTENDS Integers, Sequences, FiniteSets, TLC

VARIABLES
    \* ---- LXCExecSpec._validate_command, one call -----------------------
    raw,        \* the argument `raw`
    pc,         \* position of the call in the function body
    command,    \* local `command` (raw.strip())
    tokens,     \* local `tokens` (shlex.split(command))
    segments,   \* local `segments`
    outcome,    \* what the call returned or raised
    \* ---- LXCExecSpec(...) construction and lxc_exec --------------------
    payload,    \* the request body: cmd, commands
    model,      \* the constructed LXCExecSpec, or the validation errors
    shellCmd,   \* the string lxc_exec hands to bash -lc
    response,   \* the HTTP status of the response, 0 before there is one
    execpc,     \* position of the POST /lxc/exec request
    \* ---- /ssh/run, /apps/launch, /browser/open: _resolve_ssh_connection,
    \* ---- SSHRunner ------------------------------------------------------
    endpoint,   \* the path of the request
    request,    \* the SSHSpec fields of the request
    env,        \* os.environ, the variables the resolver reads
    keyFile,    \* os.path.exists("/keys/pve_id_rsa")
    conn,       \* the dict _resolve_ssh_connection returned
    runner,     \* the SSHRunner instance (or the SSHError of __init__)
    auth,       \* what SSHRunner.run handed to paramiko's connect()
    reply,      \* the HTTP response
    sshpc,      \* position of the handler
    \* ---- /bliss/adb/connect, /bliss/adb/shell ---------------------------
    blissSpec,  \* the request body (BlissADBConnectSpec, BlissADBShellSpec)
    blissEnv,   \* os.environ, the BLISS_ADB_* variables
    address,    \* local `address` (connect) or `serial` (shell), or the HTTPException
    adbCalls,   \* the calls of _run_adb so far, with what each returned or raised
    adbSteps,   \* local `steps`
    adbReply,   \* the HTTP response
    adbpc,      \* position of the handler
    \* ---- /deploy --------------------------------------------------------
    deploySpec, \* the request body (DeploySpec)
    deployCalls,\* the commands handed to subprocess.run so far
    deploySteps,\* local `steps`
    deployReply,\* the HTTP response
    deploypc,   \* position of the handler
    \* ---- /lxc/create ----------------------------------------------------
    createReq,  \* the request body (CreateLXCReq)
    proxmox,    \* what the Proxmox API does with the request
    createReply,\* the HTTP response
    createpc    \* position of the handler

vars == <<raw, pc, command, tokens, segments, outcome,
          payload, model, shellCmd, response, execpc,
          endpoint, request, env, keyFile, conn, runner, auth, reply, sshpc,
          blissSpec, blissEnv, address, adbCalls, adbSteps, adbReply, adbpc,
          deploySpec, deployCalls, deploySteps, deployReply, deploypc,
          createReq, proxmox, createReply, createpc>>

cmdVars == <<raw, pc, command, tokens, segments, outcome>>
execVars == <<payload, model, shellCmd, response, execpc>>
sshVars == <<endpoint, request, env, keyFile, conn, runner, auth, reply, sshpc>>
adbVars == <<blissSpec, blissEnv, address, adbCalls, adbSteps, adbReply, adbpc>>
deployVars == <<deploySpec, deployCalls, deploySteps, deployReply, deploypc>>
createVars == <<createReq, proxmox, createReply, createpc>>

\* Python's None, where the other values are message texts
None == "None"

\* Python's None, where the other values are strings (sequences of
\* characters): a sequence that is no string
NoneStr == <<None>>

\* Python's None, where the other values are lists of strings
NoneList == <<NoneStr>>

\* an Optional[int] or Optional[bool]: the empty sequence for None, <<v>>
\* for the value v
NoneVal == <<>>
Some(v) == <<v>>

----------------------------------------------------------------------------
(* Generic string helpers (Python str methods used by the code).           *)

\* characters str.strip() removes that the model's alphabet contains
Whitespace == {" ", "\t", "\n", "\r"}

RECURSIVE LStrip(_)
LStrip(s) ==
    IF s # <<>> /\ Head(s) \in Whitespace THEN LStrip(Tail(s)) ELSE s

RECURSIVE RStrip(_)
RStrip(s) ==
    IF s # <<>> /\ s[Len(s)] \in Whitespace
    THEN RStrip(SubSeq(s, 1, Len(s) - 1))
    ELSE s

\* str.lstrip() in place of str.strip()
Strip_LeftOnly(s) == LStrip(s)

\* str.strip()
Strip(s) == RStrip(LStrip(s))

\* `c in s` for a one-character c
HasChar(s, c) == \E i \in 1..Len(s) : s[i] = c

\* `sub in s` for a substring
HasSub(s, sub) ==
    \E i \in 1..(Len(s) - Len(sub) + 1) : SubSeq(s, i, i + Len(sub) - 1) = sub

\* concatenation of a sequence of strings
RECURSIVE Flatten(_)
Flatten(ss) == IF ss = <<>> THEN <<>> ELSE Head(ss) \o Flatten(Tail(ss))

\* all sequences over S of length at most n
RECURSIVE SeqsUpTo(_, _)
SeqsUpTo(S, n) ==
    IF n = 0 THEN {<<>>}
    ELSE LET shorter == SeqsUpTo(S, n - 1)
         IN  shorter \cup {Append(q, x) : q \in shorter, x \in S}

----------------------------------------------------------------------------
(* shlex.split(command): shlex.shlex(command, posix=True) with             *)
(* whitespace_split = True and no commenters, read to end of input.        *)
(* ShlexScan is shlex.read_token's character loop; the token under         *)
(* construction, `quoted` and `escapedstate` restart with every token,     *)
(* the lexer state `st` carries over.  The end of input is the empty       *)
(* string, as instream.read(1) returns it.                                 *)

ShlexWhitespace == {" ", "\t", "\r", "\n"}
ShlexQuotes == {"'", "\""}
ShlexEscape == {"\\"}
ShlexEscapedQuotes == {"\""}

NoClosingQuotation == "No closing quotation"
NoEscapedCharacter == "No escaped character"

\* the token read_token returns at a break: None (nothing appended) when it
\* is empty and no quote was seen
ShlexEmit(out, tok, quoted) ==
    IF tok # <<>> \/ quoted THEN Append(out, tok) ELSE out

RECURSIVE ShlexScan(_, _, _, _, _, _, _)
ShlexScan(s, i, st, esc, tok, quoted, out) ==
    LET c == IF i > Len(s) THEN "" ELSE s[i] IN
    CASE st = " " ->
            IF c = "" THEN [ok |-> TRUE, tokens |-> ShlexEmit(out, tok, quoted), error |-> None]
            ELSE IF c \in ShlexWhitespace THEN
                IF tok # <<>> \/ quoted
                THEN ShlexScan(s, i + 1, " ", " ", <<>>, FALSE, Append(out, tok))
                ELSE ShlexScan(s, i + 1, " ", esc, tok, quoted, out)
            ELSE IF c \in ShlexEscape THEN ShlexScan(s, i + 1, c, "a", tok, quoted, out)
            ELSE IF c \in ShlexQuotes THEN ShlexScan(s, i + 1, c, esc, tok, quoted, out)
            ELSE ShlexScan(s, i + 1, "a", esc, <<c>>, quoted, out)
      [] st \in ShlexQuotes ->
            IF c = "" THEN [ok |-> FALSE, tokens |-> <<>>, error |-> NoClosingQuotation]
            ELSE IF c = st THEN ShlexScan(s, i + 1, "a", esc, tok, TRUE, out)
            ELSE IF c \in ShlexEscape /\ st \in ShlexEscapedQuotes
                 THEN ShlexScan(s, i + 1, c, st, tok, TRUE, out)
            ELSE ShlexScan(s, i + 1, st, esc, Append(tok, c), TRUE, out)
      [] st \in ShlexEscape ->
            IF c = "" THEN [ok |-> FALSE, tokens |-> <<>>, error |-> NoEscapedCharacter]
            ELSE IF esc \in ShlexQuotes /\ c # st /\ c # esc
                 THEN ShlexScan(s, i + 1, esc, esc, tok \o <<st, c>>, quoted, out)
            ELSE ShlexScan(s, i + 1, esc, esc, Append(tok, c), quoted, out)
      [] OTHER -> \* st = "a"
            IF c = "" THEN [ok |-> TRUE, tokens |-> ShlexEmit(out, tok, quoted), error |-> None]
            ELSE IF c \in ShlexWhitespace THEN
                IF tok # <<>> \/ quoted
                THEN ShlexScan(s, i + 1, " ", " ", <<>>, FALSE, Append(out, tok))
                ELSE ShlexScan(s, i + 1, " ", esc, tok, quoted, out)
            ELSE IF c \in ShlexQuotes THEN ShlexScan(s, i + 1, c, esc, tok, quoted, out)
            ELSE IF c \in ShlexEscape THEN ShlexScan(s, i + 1, c, "a", tok, quoted, out)
            ELSE ShlexScan(s, i + 1, "a", esc, Append(tok, c), quoted, out)

\* shlex.split(s): [ok, tokens] or the ValueError it raises
ShlexSplit(s) == ShlexScan(s, 1, " ", " ", <<>>, FALSE, <<>>)

\* os.path.basename(p): what follows the last "/"
RECURSIVE Basename(_)
Basename(p) ==
    IF p = <<>> THEN <<>>
    ELSE IF p[Len(p)] = "/" THEN <<>>
    ELSE Append(Basename(SubSeq(p, 1, Len(p) - 1)), p[Len(p)])

----------------------------------------------------------------------------
(* LXCExecSpec._validate_command (app.py 243-292).                         *)

\* LXCExecSpec._allowed_executables, in the tuple's order
_allowed_executables ==
    << <<"s","y","s","t","e","m","c","t","l">>,
       <<"s","e","r","v","i","c","e">>,
       <<"j","o","u","r","n","a","l","c","t","l">>,
       <<"l","s">>,
       <<"c","a","t">>,
       <<"t","a","i","l">>,
       <<"h","e","a","d">>,
       <<"d","f">>,
       <<"d","u">>,
       <<"p","s">>,
       <<"k","i","l","l">>,
       <<"d","o","c","k","e","r">>,
       <<"g","i","t">>,
       <<"c","u","r","l">>,
       <<"w","g","e","t">>,
       <<"p","y","t","h","o","n","3">>,
       <<"p","i","p">>,
       <<"b","a","s","h">>,
       <<"s","h">>,
       <<"a","p","t">>,
       <<"a","p","t","-","g","e","t">> >>

AllowedSet == {_allowed_executables[i] : i \in DOMAIN _allowed_executables}

\* the messages of the ValueErrors the function raises
ErrEmpty == "Command cannot be empty"
ErrMeta == "Shell metacharacters are not allowed"
ErrInvalid == "Invalid command: "
ErrChain == "Use spaces around '&&' to chain commands"
ErrEmptySegment == "Command segment cannot be empty before '&&'"
ErrTrailing == "Command cannot end with '&&'"
ErrNotAllowed == "Command not allowed. Allowed executables: "

\* what a ValueError's message interpolates besides its fixed text: the text
\* of the exception it wraps, the allow-list, and the strings it cites
NoDetail == [cause |-> None, allowed |-> <<>>, cited |-> {}]

\* a call's result: the returned string, or the raised ValueError
Return(v) == [ok |-> TRUE, value |-> v, error |-> None, detail |-> NoDetail]
Raise(msg, det) == [ok |-> FALSE, value |-> NoneStr, error |-> msg, detail |-> det]
NoOutcome == [ok |-> FALSE, value |-> NoneStr, error |-> None, detail |-> NoDetail]

\* line 255: any(c in command for c in [...]): semicolon, pipe, backquote
\* (a TLA+ string literal cannot hold the backquote character itself)
Backquote == "backquote"

\* the list of line 255 without the pipe
ForbiddenChars_NoPipe == {";", Backquote}

ForbiddenChars == {";", "|", Backquote}
HasForbiddenChar(s) == \E c \in ForbiddenChars : HasChar(s, c)

\* line 257: re.search of an ampersand with no ampersand directly before
\* it (negative lookbehind) and none directly after it (negative lookahead)
HasLoneAmpersand(s) ==
    \E i \in 1..Len(s) :
        /\ s[i] = "&"
        /\ (i = 1 \/ s[i - 1] # "&")
        /\ (i = Len(s) \/ s[i + 1] # "&")

AndAnd == <<"&", "&">>

\* the loop without the check of line 281 after it
RECURSIVE SplitLoop_NoTrailingCheck(_, _, _, _)
SplitLoop_NoTrailingCheck(toks, i, segs, current) ==
    IF i > Len(toks) THEN
        [ok |-> TRUE, error |-> None,
         segments |-> IF current = <<>> THEN segs ELSE Append(segs, current)]
    ELSE LET token == toks[i] IN
        IF HasSub(token, AndAnd) /\ token # AndAnd
        THEN [ok |-> FALSE, segments |-> <<>>, error |-> ErrChain]
        ELSE IF token = AndAnd THEN
            IF current = <<>>
            THEN [ok |-> FALSE, segments |-> <<>>, error |-> ErrEmptySegment]
            ELSE SplitLoop_NoTrailingCheck(toks, i + 1, Append(segs, current), <<>>)
        ELSE SplitLoop_NoTrailingCheck(toks, i + 1, segs, Append(current, token))

\* lines 268-284: the loop over tokens, then the trailing check
RECURSIVE SplitLoop(_, _, _, _)
SplitLoop(toks, i, segs, current) ==
    IF i > Len(toks) THEN
        IF current = <<>> THEN [ok |-> FALSE, segments |-> <<>>, error |-> ErrTrailing]
        ELSE [ok |-> TRUE, segments |-> Append(segs, current), error |-> None]
    ELSE LET token == toks[i] IN
        IF HasSub(token, AndAnd) /\ token # AndAnd
        THEN [ok |-> FALSE, segments |-> <<>>, error |-> ErrChain]
        ELSE IF token = AndAnd THEN
            IF current = <<>>
            THEN [ok |-> FALSE, segments |-> <<>>, error |-> ErrEmptySegment]
            ELSE SplitLoop(toks, i + 1, Append(segs, current), <<>>)
        ELSE SplitLoop(toks, i + 1, segs, Append(current, token))

\* the check of line 271 made for all tokens before the walk starts
SplitSegments_ChainFirst(toks) ==
    IF \E i \in 1..Len(toks) : HasSub(toks[i], AndAnd) /\ toks[i] # AndAnd
    THEN [ok |-> FALSE, segments |-> <<>>, error |-> ErrChain]
    ELSE SplitLoop(toks, 1, <<>>, <<>>)

SplitSegments(toks) == SplitLoop(toks, 1, <<>>, <<>>)

\* the allow-list check made for the first segment only
FirstNotAllowed_FirstSegmentOnly(segs) ==
    IF Basename(segs[1][1]) \notin AllowedSet THEN 1 ELSE 0

\* lines 286-290: the first segment (in order) whose executable is not
\* allowed, 0 when there is none
FirstNotAllowed(segs) ==
    LET bad == {i \in 1..Len(segs) : Basename(segs[i][1]) \notin AllowedSet}
    IN  IF bad = {} THEN 0 ELSE CHOOSE i \in bad : \A j \in bad : i <= j

\* line 290: the ValueError of the allow-list check
NotAllowedError(segs, i) ==
    Raise(ErrNotAllowed, [NoDetail EXCEPT !.allowed = _allowed_executables])

\* the whole function: raw -> the returned string or the ValueError
_validate_command(r) ==
    LET cmd == Strip(r) IN
    IF cmd = <<>> THEN Raise(ErrEmpty, NoDetail)
    ELSE IF HasForbiddenChar(cmd) THEN Raise(ErrMeta, NoDetail)
    ELSE IF HasLoneAmpersand(cmd) THEN Raise(ErrMeta, NoDetail)
    ELSE LET t == ShlexSplit(cmd) IN
        IF ~t.ok THEN Raise(ErrInvalid, [NoDetail EXCEPT !.cause = t.error])
        ELSE IF t.tokens = <<>> THEN Raise(ErrEmpty, NoDetail)
        ELSE LET sp == SplitSegments(t.tokens) IN
            IF ~sp.ok THEN Raise(sp.error, NoDetail)
            ELSE LET bad == FirstNotAllowed(sp.segments) IN
                IF bad # 0 THEN NotAllowedError(sp.segments, bad)
                ELSE Return(cmd)

----------------------------------------------------------------------------
(* One call of _validate_command, statement by statement.                  *)

\* the fragments raw commands are put together from
CmdPieces ==
    { <<"l","s">>, <<"x">>, <<" ">>, <<"&","&">>, <<" ","&","&"," ">>, <<"&">>,
      <<";">>, <<"|">>, <<Backquote>>, <<"'">>, <<"\"">>, <<"\\">>, <<"/">>,
      <<"\n">> }

\* how many fragments a raw command has at most
MaxPieces == 3

RawCommands == {Flatten(ps) : ps \in SeqsUpTo(CmdPieces, MaxPieces)}

CmdIdle ==
    /\ raw = <<>>
    /\ pc = "Idle"
    /\ command = <<>>
    /\ tokens = <<>>
    /\ segments = <<>>
    /\ outcome = NoOutcome

NoPayload == [cmd |-> NoneStr, commands |-> NoneList]
NoModel == [ok |-> FALSE, cmd |-> NoneStr, commands |-> NoneList, errors |-> <<>>]

ExecIdle ==
    /\ payload = NoPayload
    /\ model = NoModel
    /\ shellCmd = NoneStr
    /\ response = 0
    /\ execpc = "Idle"

\* the environment variables the resolver reads
EnvNames ==
    {"DEFAULT_SSH_HOST", "PVE_SSH_HOST", "DEFAULT_SSH_USER", "PVE_SSH_USER",
     "DEFAULT_SSH_PORT", "PVE_SSH_PORT", "DEFAULT_SSH_KEY_PATH",
     "PVE_SSH_KEY_PATH", "DEFAULT_SSH_KEY_B64", "DEFAULT_SSH_PASSWORD",
     "PVE_SSH_PASSWORD", "DEFAULT_SSH_STRICT_HOST_KEY"}

\* an environment with no variable set
EmptyEnv == [n \in EnvNames |-> NoneStr]

\* the SSHSpec fields the handler reads, all at their default None
NoRequest ==
    [host |-> NoneStr, user |-> NoneStr, port |-> NoneVal, key_path |-> NoneStr,
     key_data_b64 |-> NoneStr, password |-> NoneStr, strict_host_key |-> NoneVal]

NoConn ==
    [ok |-> FALSE, status |-> 0, error |-> None,
     host |-> NoneStr, user |-> NoneStr, port |-> 0, key_path |-> NoneStr,
     key_data_b64 |-> NoneStr, password |-> NoneStr, strict_host_key |-> FALSE]

NoRunner ==
    [ok |-> FALSE, error |-> None,
     host |-> NoneStr, user |-> NoneStr, port |-> 0, key_path |-> NoneStr,
     key_data_b64 |-> NoneStr, password |-> NoneStr, strict_host_key |-> FALSE]

\* connect() not called
NoAuth ==
    [called |-> FALSE, hostname |-> NoneStr, port |-> 0, username |-> NoneStr,
     pkey |-> None, key |-> NoneStr, password |-> NoneStr]

NoReply == [status |-> 0, detail |-> None, rc |-> 0]

SSHIdle ==
    /\ endpoint = None
    /\ request = NoRequest
    /\ env = EmptyEnv
    /\ keyFile = FALSE
    /\ conn = NoConn
    /\ runner = NoRunner
    /\ auth = NoAuth
    /\ reply = NoReply
    /\ sshpc = "Idle"

\* the BLISS_ADB_* variables the resolver reads
BlissEnvNames == {"BLISS_ADB_SERIAL", "BLISS_ADB_HOST", "BLISS_ADB_ADDRESS", "BLISS_ADB_PORT"}

NoBlissEnv == [n \in BlissEnvNames |-> NoneStr]

\* the fields of BlissADBConnectSpec and BlissADBShellSpec at their defaults
NoBlissSpec ==
    [serial |-> NoneStr, host |-> NoneStr, port |-> NoneVal,
     force_disconnect |-> FALSE, wait_for_device |-> TRUE,
     cmd |-> NoneStr, commands |-> NoneList, use_su |-> FALSE]

NoAddress == [ok |-> FALSE, value |-> NoneStr, status |-> 0, error |-> None]

NoAdbReply ==
    [status |-> 0, detail |-> None, address |-> NoneStr, connected |-> FALSE,
     ok |-> FALSE, steps |-> <<>>]

AdbIdle ==
    /\ blissSpec = NoBlissSpec
    /\ blissEnv = NoBlissEnv
    /\ address = NoAddress
    /\ adbCalls = <<>>
    /\ adbSteps = <<>>
    /\ adbReply = NoAdbReply
    /\ adbpc = "Idle"

NoDeploySpec ==
    [target_vmid |-> 0, repo_url |-> <<>>, workdir |-> <<>>, setup |-> <<>>, commands |-> <<>>]

NoDeployReply == [status |-> 0, ok |-> FALSE, steps |-> <<>>]

DeployIdle ==
    /\ deploySpec = NoDeploySpec
    /\ deployCalls = <<>>
    /\ deploySteps = <<>>
    /\ deployReply = NoDeployReply
    /\ deploypc = "Idle"

NoCreateReply == [status |-> 0, detail |-> <<>>, created |-> FALSE]

\* the CreateLXCReq fields that decide how the request ends
NoCreateReq == [node |-> None, vmid |-> 0, cores |-> 2, memory |-> 2048, rootfs_gb |-> 16]

\* a Proxmox API nobody has described yet
NoProxmox ==
    [configured |-> FALSE, nodes |-> <<>>,
     post |-> [raises |-> None, status |-> 0, text |-> None]]

CreateIdle ==
    /\ createReq = NoCreateReq
    /\ proxmox = NoProxmox
    /\ createReply = NoCreateReply
    /\ createpc = "Idle"

CmdInit ==
    /\ raw \in RawCommands
    /\ pc = "Start"
    /\ command = <<>>
    /\ tokens = <<>>
    /\ segments = <<>>
    /\ outcome = NoOutcome
    /\ ExecIdle
    /\ SSHIdle
    /\ AdbIdle
    /\ DeployIdle
    /\ CreateIdle

Reject(msg, det) ==
    /\ pc' = "Rejected"
    /\ outcome' = Raise(msg, det)

\* lines 252-254
StripCommand ==
    /\ pc = "Start"
    /\ command' = Strip(raw)
    /\ IF command' = <<>>
       THEN Reject(ErrEmpty, NoDetail)
       ELSE pc' = "MetacharacterCheck" /\ outcome' = outcome
    /\ UNCHANGED <<raw, tokens, segments, execVars, sshVars, adbVars, deployVars, createVars>>

\* lines 255-258
MetacharacterCheck ==
    /\ pc = "MetacharacterCheck"
    /\ IF HasForbiddenChar(command) \/ HasLoneAmpersand(command)
       THEN Reject(ErrMeta, NoDetail)
       ELSE pc' = "Tokenize" /\ outcome' = outcome
    /\ UNCHANGED <<raw, command, tokens, segments, execVars, sshVars, adbVars, deployVars, createVars>>

\* lines 260-266
Tokenize ==
    /\ pc = "Tokenize"
    /\ LET t == ShlexSplit(command) IN
       IF ~t.ok THEN Reject(ErrInvalid, [NoDetail EXCEPT !.cause = t.error]) /\ tokens' = tokens
       ELSE IF t.tokens = <<>> THEN Reject(ErrEmpty, NoDetail) /\ tokens' = t.tokens
       ELSE pc' = "SegmentSplit" /\ outcome' = outcome /\ tokens' = t.tokens
    /\ UNCHANGED <<raw, command, segments, execVars, sshVars, adbVars, deployVars, createVars>>

\* lines 268-284
SegmentSplit ==
    /\ pc = "SegmentSplit"
    /\ LET sp == SplitSegments(tokens) IN
       IF ~sp.ok THEN Reject(sp.error, NoDetail) /\ segments' = segments
       ELSE pc' = "AllowListCheck" /\ outcome' = outcome /\ segments' = sp.segments
    /\ UNCHANGED <<raw, command, tokens, execVars, sshVars, adbVars, deployVars, createVars>>

\* lines 286-292
AllowListCheck ==
    /\ pc = "AllowListCheck"
    /\ LET bad == FirstNotAllowed(segments) IN
       IF bad # 0
       THEN pc' = "Rejected" /\ outcome' = NotAllowedError(segments, bad)
       ELSE pc' = "Accepted" /\ outcome' = Return(command)
    /\ UNCHANGED <<raw, command, tokens, segments, execVars, sshVars, adbVars, deployVars, createVars>>

CmdNext ==
    \/ StripCommand
    \/ MetacharacterCheck
    \/ Tokenize
    \/ SegmentSplit
    \/ AllowListCheck

Spec == CmdInit /\ [][CmdNext]_vars

CmdDone == pc \in {"Accepted", "Rejected"}

----------------------------------------------------------------------------
(* Properties of _validate_command.                                        *)

\* the statement-by-statement call and the function agree
CmdOutcomeIsFunction == CmdDone => outcome = _validate_command(raw)

\* the tokens that start a segment: the first token and every token after a
\* "&&" token, unless it is a "&&" itself
IsSegmentHead(toks, i) ==
    /\ toks[i] # AndAnd
    /\ (i = 1 \/ toks[i - 1] = AndAnd)

LsAndX == <<"l","s"," ","&","&"," ","x">>

\* C1: in every accepted command, after shell-word tokenization and splitting
\* on the token "&&", the basename of the first token of every segment is in
\* _allowed_executables; a chain with an allowed first segment and a later
\* segment that starts with another executable ("ls && x") is rejected as
\* not allowed.
C1_EverySegmentHeadAllowed ==
    /\ pc = "Accepted" =>
          LET toks == ShlexSplit(outcome.value).tokens IN
          \A i \in 1..Len(toks) :
              IsSegmentHead(toks, i) =>
                  \E k \in DOMAIN _allowed_executables :
                      Basename(toks[i]) = _allowed_executables[k]
    /\ (CmdDone /\ raw = LsAndX) =>
          pc = "Rejected" /\ outcome.error = ErrNotAllowed

C1_Witness == pc = "Accepted" /\ Len(segments) >= 2

\* an ampersand with no ampersand directly before it and none directly after
IsLoneAmpersandAt(s, i) ==
    /\ s[i] = "&"
    /\ ~(i > 1 /\ s[i - 1] = "&")
    /\ ~(i < Len(s) /\ s[i + 1] = "&")

ContainsForbidden(s) ==
    \/ \E i \in 1..Len(s) : s[i] = ";" \/ s[i] = "|" \/ s[i] = Backquote
    \/ \E i \in 1..Len(s) : IsLoneAmpersandAt(s, i)

\* C2: every command string that contains a semicolon, a pipe or a backquote
\* anywhere (inside quotes too), or an ampersand with no ampersand next to it,
\* is rejected with the metacharacter error; no accepted command contains any
\* of them.
C2_MetacharactersRejected ==
    /\ (CmdDone /\ ContainsForbidden(raw)) =>
          pc = "Rejected" /\ outcome.error = ErrMeta
    /\ pc = "Accepted" => ~ContainsForbidden(outcome.value)

C2_Witness ==
    /\ pc = "Rejected"
    /\ outcome.error = ErrMeta
    /\ raw = <<"'", "|", "'">>

\* the tokens at which the walk of lines 270-279 raises
IsChainOffender(toks, i) == HasSub(toks[i], AndAnd) /\ toks[i] # AndAnd
IsEmptyOffender(toks, i) == toks[i] = AndAnd /\ (i = 1 \/ toks[i - 1] = AndAnd)
Offenders(toks) ==
    {i \in 1..Len(toks) : IsChainOffender(toks, i) \/ IsEmptyOffender(toks, i)}
FirstOffender(toks) == CHOOSE i \in Offenders(toks) : \A j \in Offenders(toks) : i <= j

\* the error segment splitting is to end with, None when it is to succeed
ExpectedSplitError(toks) ==
    IF Offenders(toks) # {}
    THEN IF IsChainOffender(toks, FirstOffender(toks)) THEN ErrChain ELSE ErrEmptySegment
    ELSE IF toks[Len(toks)] = AndAnd THEN ErrTrailing
    ELSE None

SplitErrors == {ErrChain, ErrEmptySegment, ErrTrailing}

\* segments joined again with "&&" tokens between them
RECURSIVE JoinSegments(_)
JoinSegments(segs) ==
    IF Len(segs) = 1 THEN segs[1]
    ELSE segs[1] \o <<AndAnd>> \o JoinSegments(Tail(segs))

\* the call has gone through segment splitting
SplitDone == tokens # <<>> /\ pc \in {"AllowListCheck", "Accepted", "Rejected"}

\* C3: in every accepted command "&&" occurs among the tokens only as a
\* standalone token with a non-"&&" token directly before and directly after
\* it, and the segments are the one or more non-empty runs of tokens between
\* the "&&" tokens.  Segment splitting rejects at the first token, in token
\* order, that breaks a rule: the chaining-syntax error for a token that
\* contains "&&" without being "&&", the empty-segment error for a "&&" with
\* no token since the previous split; and the trailing-chain error when no
\* token breaks a rule and the last token is "&&".
C3_ChainStructure ==
    /\ pc = "Accepted" =>
          /\ \A i \in 1..Len(tokens) :
                HasSub(tokens[i], AndAnd) =>
                    /\ tokens[i] = AndAnd
                    /\ 1 < i /\ i < Len(tokens)
                    /\ tokens[i - 1] # AndAnd
                    /\ tokens[i + 1] # AndAnd
          /\ Len(segments) >= 1
          /\ \A k \in 1..Len(segments) : segments[k] # <<>>
          /\ JoinSegments(segments) = tokens
    /\ SplitDone =>
          IF ExpectedSplitError(tokens) = None
          THEN outcome.error \notin SplitErrors
          ELSE pc = "Rejected" /\ outcome.error = ExpectedSplitError(tokens)

C3_Witness ==
    /\ pc = "Rejected"
    /\ outcome.error = ErrTrailing
    /\ tokens = << <<"l","s">>, AndAnd >>

\* C4: when a segment's leading executable is not in the allow-list, the
\* error carries the rejected executable (the token or its basename)
\* together with the full allow-list.
C4_ErrorCitesExecutable ==
    (pc = "Rejected" /\ outcome.error = ErrNotAllowed) =>
        LET bad == CHOOSE k \in 1..Len(segments) :
                       /\ Basename(segments[k][1]) \notin AllowedSet
                       /\ \A j \in 1..(k - 1) : Basename(segments[j][1]) \in AllowedSet
        IN  /\ outcome.detail.allowed = _allowed_executables
            /\ \/ segments[bad][1] \in outcome.detail.cited
               \/ Basename(segments[bad][1]) \in outcome.detail.cited

\* the position of a stage in the pipeline
StageOf(p) ==
    CASE p = "Start" -> 0
      [] p = "MetacharacterCheck" -> 1
      [] p = "Tokenize" -> 2
      [] p = "SegmentSplit" -> 3
      [] p = "AllowListCheck" -> 4
      [] OTHER -> 5

\* a step of the call moves to the next stage or to Rejected, and nothing
\* follows Accepted or Rejected
C5_Forward ==
    pc' # pc =>
        /\ pc \notin {"Accepted", "Rejected"}
        /\ \/ pc' = "Rejected"
           \/ StageOf(pc') = StageOf(pc) + 1

\* the rules of the stages, each stated for the trimmed command whether or
\* not an earlier stage already failed
BreaksQuoting(c) == ~ShlexSplit(c).ok
BreaksChaining(c) ==
    /\ ShlexSplit(c).ok
    /\ ShlexSplit(c).tokens # <<>>
    /\ ExpectedSplitError(ShlexSplit(c).tokens) # None
BreaksAllowList(c) ==
    /\ ShlexSplit(c).ok
    /\ LET toks == ShlexSplit(c).tokens IN
       \E i \in 1..Len(toks) :
           IsSegmentHead(toks, i) /\ Basename(toks[i]) \notin AllowedSet

\* the error of the earliest stage whose rule the command breaks
EarliestError(c) ==
    IF c = <<>> THEN ErrEmpty
    ELSE IF ContainsForbidden(c) THEN ErrMeta
    ELSE IF BreaksQuoting(c) THEN ErrInvalid
    ELSE IF BreaksChaining(c) THEN ExpectedSplitError(ShlexSplit(c).tokens)
    ELSE IF BreaksAllowList(c) THEN ErrNotAllowed
    ELSE None

C5_EarliestWins ==
    CmdDone =>
        IF EarliestError(command) = None
        THEN pc = "Accepted"
        ELSE pc = "Rejected" /\ outcome.error = EarliestError(command)

\* C5: validation is the one-way pipeline Start -> MetacharacterCheck ->
\* Tokenize -> SegmentSplit -> AllowListCheck -> Accepted, any stage ending
\* in Rejected, with no step back; of the rules a command breaks only the
\* error of the earliest stage is reported, and within segment splitting the
\* error of the first offending token.
C5_OneWayPipeline == [][C5_Forward]_vars /\ []C5_EarliestWins

\* "x &&": a trailing chain behind an executable that is not allowed
C5_Witness ==
    /\ pc = "Rejected"
    /\ outcome.error = ErrTrailing
    /\ BreaksAllowList(command)

\* v is r without its leading and trailing whitespace, and nothing else
\* changed
IsTrimOf(v, r) ==
    \E i \in 1..(Len(r) + 1), j \in 0..Len(r) :
        /\ v = SubSeq(r, i, j)
        /\ \A k \in 1..(i - 1) : r[k] \in Whitespace
        /\ \A k \in (j + 1)..Len(r) : r[k] \in Whitespace
        /\ v # <<>> => (v[1] \notin Whitespace /\ v[Len(v)] \notin Whitespace)

\* C6: the string returned for an accepted raw command is the raw command
\* without its leading and trailing whitespace and otherwise unchanged, and
\* validating the returned string again succeeds with the same string and the
\* same segments.
C6_TrimmedAndIdempotent ==
    pc = "Accepted" =>
        /\ outcome.ok
        /\ IsTrimOf(outcome.value, raw)
        /\ _validate_command(outcome.value) = Return(outcome.value)
        /\ LET again == ShlexSplit(Strip(outcome.value)) IN
           /\ again.ok
           /\ SplitSegments(again.tokens) = [ok |-> TRUE, segments |-> segments, error |-> None]

C6_Witness == pc = "Accepted" /\ outcome.value # raw

----------------------------------------------------------------------------
(* POST /lxc/exec: the body becomes an LXCExecSpec (validators of app.py  *)
(* 294-316, run by pydantic), then the handler lxc_exec (1251-1262).      *)

ErrCommandsEmpty == "commands cannot be empty"
ErrNeither == "Either 'cmd' or 'commands' must be provided"
ErrBoth == "Use either 'cmd' or 'commands', not both"

\* lines 294-299: field validator of cmd
validate_cmd(v) ==
    IF v = NoneStr THEN Return(NoneStr) ELSE _validate_command(v)

\* the list comprehension of line 308: the first element (in order) that
\* _validate_command rejects, 0 when there is none
FirstInvalid(v) ==
    LET bad == {i \in 1..Len(v) : ~_validate_command(v[i]).ok}
    IN  IF bad = {} THEN 0 ELSE CHOOSE i \in bad : \A j \in bad : i <= j

\* a validator that leaves the rejected elements out instead of raising
validate_commands_DropInvalid(v) ==
    IF v = NoneList THEN [ok |-> TRUE, value |-> NoneList, error |-> None]
    ELSE IF v = <<>> THEN [ok |-> FALSE, value |-> NoneList, error |-> ErrCommandsEmpty]
    ELSE [ok |-> TRUE, error |-> None,
          value |-> LET keep == {i \in 1..Len(v) : _validate_command(v[i]).ok}
                        RECURSIVE Pick(_)
                        Pick(i) == IF i > Len(v) THEN <<>>
                                   ELSE IF i \in keep
                                        THEN <<_validate_command(v[i]).value>> \o Pick(i + 1)
                                        ELSE Pick(i + 1)
                    IN  Pick(1)]

\* lines 301-308: field validator of commands
validate_commands(v) ==
    IF v = NoneList THEN [ok |-> TRUE, value |-> NoneList, error |-> None]
    ELSE IF v = <<>> THEN [ok |-> FALSE, value |-> NoneList, error |-> ErrCommandsEmpty]
    ELSE IF FirstInvalid(v) # 0
         THEN [ok |-> FALSE, value |-> NoneList,
               error |-> _validate_command(v[FirstInvalid(v)]).error]
    ELSE [ok |-> TRUE, error |-> None,
          value |-> [i \in 1..Len(v) |-> _validate_command(v[i]).value]]

\* Python truth value of an Optional[str] and of an Optional[List[str]]
Truthy(v) == v # NoneStr /\ v # <<>>
TruthyList(v) == v # NoneList /\ v # <<>>

\* lines 310-316: model validator, None when it returns self
check_payload(cmd, commands) ==
    IF ~Truthy(cmd) /\ ~TruthyList(commands) THEN ErrNeither
    ELSE IF Truthy(cmd) /\ TruthyList(commands) THEN ErrBoth
    ELSE None

\* LXCExecSpec(cmd=..., commands=...): pydantic runs the field validators of
\* the fields, collects their errors, and runs the model validator when
\* there is none
LXCExecSpec(body) ==
    LET c == validate_cmd(body.cmd)
        l == validate_commands(body.commands)
        fieldErrors == (IF c.ok THEN <<>> ELSE <<c.error>>)
                       \o (IF l.ok THEN <<>> ELSE <<l.error>>)
    IN  IF fieldErrors # <<>>
        THEN [NoModel EXCEPT !.errors = fieldErrors]
        ELSE IF check_payload(c.value, l.value) # None
        THEN [NoModel EXCEPT !.errors = <<check_payload(c.value, l.value)>>]
        ELSE [ok |-> TRUE, cmd |-> c.value, commands |-> l.value, errors |-> <<>>]

\* str.join
RECURSIVE JoinWith(_, _)
JoinWith(sep, list) ==
    IF list = <<>> THEN <<>>
    ELSE IF Len(list) = 1 THEN list[1]
    ELSE list[1] \o sep \o JoinWith(sep, Tail(list))

\* a join that leaves out the spaces around the operator
JoinedCommand_Unspaced(spec) ==
    IF spec.cmd # NoneStr THEN spec.cmd
    ELSE JoinWith(<<"&", "&">>,
                  IF spec.commands = NoneList THEN <<>> ELSE spec.commands)

\* line 1255
JoinedCommand(spec) ==
    IF spec.cmd # NoneStr THEN spec.cmd
    ELSE JoinWith(<<" ", "&", "&", " ">>,
                  IF spec.commands = NoneList THEN <<>> ELSE spec.commands)

\* the raw strings request bodies are made of
ExecStrings ==
    { <<>>, <<"l","s">>, <<" ","l","s"," ">>, <<"x">>, <<"l","s",";">>,
      <<"l","s","\n","x">>, <<"l","s"," ","&","&"," ","l","s">> }

\* how many elements a commands list has at most
MaxCommands == 2

Payloads ==
    [cmd : {NoneStr} \cup ExecStrings,
     commands : {NoneList} \cup SeqsUpTo(ExecStrings, MaxCommands)]

ExecInit ==
    /\ payload \in Payloads
    /\ model = NoModel
    /\ shellCmd = NoneStr
    /\ response = 0
    /\ execpc = "Request"
    /\ CmdIdle
    /\ SSHIdle
    /\ AdbIdle
    /\ DeployIdle
    /\ CreateIdle

\* the request body is validated; FastAPI answers 422 when it is not valid
ConstructSpec ==
    /\ execpc = "Request"
    /\ model' = LXCExecSpec(payload)
    /\ IF model'.ok
       THEN execpc' = "Validated" /\ response' = response
       ELSE execpc' = "Done" /\ response' = 422
    /\ UNCHANGED <<payload, shellCmd, cmdVars, sshVars, adbVars, deployVars, createVars>>

\* lxc_exec with _require_pve_ssh failing (HTTP 400)
LxcExecNotConfigured ==
    /\ execpc = "Validated"
    /\ execpc' = "Done"
    /\ response' = 400
    /\ UNCHANGED <<payload, model, shellCmd, cmdVars, sshVars, adbVars, deployVars, createVars>>

\* lxc_exec: the command is built and run; subprocess.run returns (200) or
\* raises (500)
LxcExec ==
    /\ execpc = "Validated"
    /\ shellCmd' = JoinedCommand(model)
    /\ execpc' = "Done"
    /\ response' \in {200, 500}
    /\ UNCHANGED <<payload, model, cmdVars, sshVars, adbVars, deployVars, createVars>>

ExecNext ==
    \/ ConstructSpec
    \/ LxcExecNotConfigured
    \/ LxcExec

SpecExec == ExecInit /\ [][ExecNext]_vars

----------------------------------------------------------------------------
(* Properties of LXCExecSpec.                                              *)

CmdProvided == payload.cmd # NoneStr
CommandsProvided == payload.commands # NoneList

\* C7: a payload is accepted only if exactly one of cmd and commands is
\* provided; cmd alone is accepted iff it passes _validate_command; a
\* commands list alone is accepted iff it is non-empty and every element
\* passes _validate_command on its own; the accepted list has the elements of
\* the request in their order, each changed by trimming only.
C7_PayloadValidation ==
    execpc \in {"Validated", "Done"} =>
        /\ model.ok => (CmdProvided /\ ~CommandsProvided) \/ (~CmdProvided /\ CommandsProvided)
        /\ (CmdProvided /\ ~CommandsProvided) =>
              (model.ok <=> _validate_command(payload.cmd).ok)
        /\ (~CmdProvided /\ CommandsProvided) =>
              (model.ok <=>
                  /\ payload.commands # <<>>
                  /\ \A i \in 1..Len(payload.commands) :
                         _validate_command(payload.commands[i]).ok)
        /\ (model.ok /\ CommandsProvided) =>
              /\ Len(model.commands) = Len(payload.commands)
              /\ \A i \in 1..Len(payload.commands) :
                     IsTrimOf(model.commands[i], payload.commands[i])
        /\ (model.ok /\ CmdProvided) => IsTrimOf(model.cmd, payload.cmd)

\* a two-element list with one failing element is rejected
C7_Witness ==
    /\ execpc = "Done"
    /\ ~model.ok
    /\ ~CmdProvided
    /\ payload.commands = << <<"l","s">>, <<"x">> >>

----------------------------------------------------------------------------
(* The SSH connection resolver: _first_non_empty, _env_non_empty,          *)
(* _bool_env and _resolve_ssh_connection (app.py 551-555, 683-768).        *)

Root == <<"r","o","o","t">>
DefaultKeyFile == <<"/","k","e","y","s","/","p","v","e","_","i","d","_","r","s","a">>

\* lines 683-693, for Optional[str] values: the first value that is not None
\* and not blank, stripped
RECURSIVE _first_non_empty(_)
_first_non_empty(values) ==
    IF values = <<>> THEN NoneStr
    ELSE IF Head(values) = NoneStr THEN _first_non_empty(Tail(values))
    ELSE IF Strip(Head(values)) = <<>> THEN _first_non_empty(Tail(values))
    ELSE Strip(Head(values))

\* lines 696-701
_env_non_empty(e, name) ==
    IF e[name] = NoneStr THEN NoneStr
    ELSE IF Strip(e[name]) = <<>> THEN NoneStr
    ELSE Strip(e[name])

\* str.lower() on the letters of the model's alphabet
LowerChar(c) ==
    CASE c = "S" -> "s"
      [] c = "H" -> "h"
      [] c = "T" -> "t"
      [] c = "O" -> "o"
      [] c = "N" -> "n"
      [] OTHER -> c
Lower(s) == [i \in 1..Len(s) |-> LowerChar(s[i])]

\* lines 551-555
_bool_env(e, name, default) ==
    IF e[name] = NoneStr THEN default
    ELSE Lower(Strip(e[name])) \in {<<"1">>, <<"t","r","u","e">>, <<"y","e","s">>, <<"o","n">>}

Digits == {"0", "1", "2", "3", "4", "5", "6", "7", "8", "9"}
DigitValue(c) ==
    CASE c = "0" -> 0 [] c = "1" -> 1 [] c = "2" -> 2 [] c = "3" -> 3
      [] c = "4" -> 4 [] c = "5" -> 5 [] c = "6" -> 6 [] c = "7" -> 7
      [] c = "8" -> 8 [] OTHER -> 9

\* Python's int has no largest value; the model's integers do, so values
\* from IntCeiling on are all held as IntCeiling (they are only ever compared
\* with the port range, which lies far below)
IntCeiling == 1000000

\* the value of a run of decimal digits, single underscores between digits
\* skipped as int() skips them
RECURSIVE DigitsValue(_, _)
DigitsValue(s, acc) ==
    IF s = <<>> THEN acc
    ELSE IF Head(s) = "_" THEN DigitsValue(Tail(s), acc)
    ELSE LET next == 10 * acc + DigitValue(Head(s))
         IN  DigitsValue(Tail(s), IF next >= IntCeiling THEN IntCeiling ELSE next)

IsDigitRun(s) ==
    /\ s # <<>>
    /\ \A i \in 1..Len(s) : s[i] \in Digits \cup {"_"}
    /\ s[1] # "_" /\ s[Len(s)] # "_"
    /\ \A i \in 1..(Len(s) - 1) : ~(s[i] = "_" /\ s[i + 1] = "_")

\* int(s) for a str: whitespace around, an optional sign, decimal digits;
\* ok = FALSE for the ValueError
ParseInt(s) ==
    LET t == Strip(s)
        signed == t # <<>> /\ t[1] \in {"+", "-"}
        body == IF signed THEN Tail(t) ELSE t
    IN  IF ~IsDigitRun(body) THEN [ok |-> FALSE, value |-> 0]
        ELSE [ok |-> TRUE,
              value |-> IF signed /\ t[1] = "-"
                        THEN 0 - DigitsValue(body, 0)
                        ELSE DigitsValue(body, 0)]

ErrNoHost == "SSH host is not provided. Supply 'host' in the request or configure DEFAULT_SSH_HOST/PVE_SSH_HOST."
ErrInvalidPort == "Invalid SSH port value: "

ResolvePort_EnvFirst(spec, e) ==
    LET fromEnv == _first_non_empty(<<_env_non_empty(e, "DEFAULT_SSH_PORT"),
                                      _env_non_empty(e, "PVE_SSH_PORT")>>)
    IN  IF fromEnv # NoneStr THEN ParseInt(fromEnv)
        ELSE IF spec.port # NoneVal THEN [ok |-> TRUE, value |-> spec.port[1]]
        ELSE [ok |-> TRUE, value |-> 22]

\* lines 723-735: the port of the request, else of the environment, else 22;
\* ok = FALSE when int() raises
ResolvePort(spec, e) ==
    IF spec.port # NoneVal THEN [ok |-> TRUE, value |-> spec.port[1]]
    ELSE LET fromEnv == _first_non_empty(<<_env_non_empty(e, "DEFAULT_SSH_PORT"),
                                           _env_non_empty(e, "PVE_SSH_PORT")>>)
         IN  IF fromEnv = NoneStr THEN [ok |-> TRUE, value |-> 22]
             ELSE ParseInt(fromEnv)

\* lines 716-721
ResolveUser(spec, e) ==
    _first_non_empty(<<spec.user, _env_non_empty(e, "DEFAULT_SSH_USER"),
                       _env_non_empty(e, "PVE_SSH_USER"), Root>>)

\* lines 737-743
ResolveKeyPath(spec, e, keyFileExists) ==
    LET key_path == _first_non_empty(<<spec.key_path,
                                       _env_non_empty(e, "DEFAULT_SSH_KEY_PATH"),
                                       _env_non_empty(e, "PVE_SSH_KEY_PATH")>>)
    IN  IF key_path = NoneStr /\ keyFileExists THEN DefaultKeyFile ELSE key_path

\* lines 745-748
ResolveKeyData(spec, e) ==
    _first_non_empty(<<spec.key_data_b64, _env_non_empty(e, "DEFAULT_SSH_KEY_B64")>>)

\* lines 750-754
ResolvePassword(spec, e) ==
    _first_non_empty(<<spec.password, _env_non_empty(e, "DEFAULT_SSH_PASSWORD"),
                       _env_non_empty(e, "PVE_SSH_PASSWORD")>>)

\* lines 704-768: the returned dict, or the HTTPException(400)
_resolve_ssh_connection(spec, e, keyFileExists) ==
    LET host == _first_non_empty(<<spec.host, _env_non_empty(e, "DEFAULT_SSH_HOST"),
                                   _env_non_empty(e, "PVE_SSH_HOST")>>)
        port == ResolvePort(spec, e)
    IN  IF host = NoneStr
        THEN [NoConn EXCEPT !.status = 400, !.error = ErrNoHost]
        ELSE IF ~port.ok
        THEN [NoConn EXCEPT !.status = 400, !.error = ErrInvalidPort]
        ELSE [ok |-> TRUE, status |-> 0, error |-> None,
              host |-> host,
              user |-> ResolveUser(spec, e),
              port |-> port.value,
              key_path |-> ResolveKeyPath(spec, e, keyFileExists),
              key_data_b64 |-> ResolveKeyData(spec, e),
              password |-> ResolvePassword(spec, e),
              strict_host_key |->
                  IF spec.strict_host_key # NoneVal THEN spec.strict_host_key[1]
                  ELSE _bool_env(e, "DEFAULT_SSH_STRICT_HOST_KEY", FALSE)]

----------------------------------------------------------------------------
(* SSHRunner.__init__ (app.py 958-1061): the host specification is parsed  *)
(* into host, port and user.                                               *)

StartsWith(s, prefix) ==
    Len(s) >= Len(prefix) /\ SubSeq(s, 1, Len(prefix)) = prefix

\* str.find, 1-based; 0 when sub does not occur
Find(s, sub) ==
    IF HasSub(s, sub)
    THEN CHOOSE i \in 1..Len(s) :
            /\ SubSeq(s, i, i + Len(sub) - 1) = sub
            /\ \A j \in 1..(i - 1) : SubSeq(s, j, j + Len(sub) - 1) # sub
    ELSE 0

\* s.split(sep, 1) for an s that contains sep
SplitFirst(s, sep) ==
    LET i == Find(s, sep)
    IN  [before |-> SubSeq(s, 1, i - 1), after |-> SubSeq(s, i + Len(sep), Len(s))]

Count(s, c) == Cardinality({i \in 1..Len(s) : s[i] = c})

SchemeSep == <<":", "/", "/">>
SshScheme == <<"s","s","h",":","/","/">>

ErrHostEmpty == "SSH host cannot be empty"
ErrScheme == "Unsupported SSH URI scheme: "
ErrPath == "SSH host specification must not include a path component"
ErrEmbeddedUserEmpty == "SSH username in host specification cannot be empty"
ErrNoClosingBracket == "Invalid IPv6 SSH host format. Expected closing ']'."
ErrAfterIPv6 == "Invalid SSH host format after IPv6 literal"
ErrPortEmpty == "SSH port in host specification cannot be empty"
ErrPortValue == "Invalid SSH port value: "
ErrPortRange == "SSH port must be between 1 and 65535"
ErrUserEmpty == "SSH username cannot be empty"

Parsed(rest) == [error |-> None, rest |-> rest, user |-> NoneStr, port |-> NoneVal]
ParseError(msg) == [error |-> msg, rest |-> <<>>, user |-> NoneStr, port |-> NoneVal]

StripScheme_CaseSensitive(host) ==
    LET raw_host == IF host = NoneStr THEN <<>> ELSE Strip(host)
    IN  IF raw_host = <<>> THEN ParseError(ErrHostEmpty)
        ELSE IF StartsWith(raw_host, SshScheme)
        THEN LET rest == Strip(SubSeq(raw_host, 7, Len(raw_host)))
             IN  IF rest = <<>> THEN ParseError(ErrHostEmpty) ELSE Parsed(rest)
        ELSE IF HasSub(raw_host, SchemeSep) THEN ParseError(ErrScheme)
        ELSE Parsed(raw_host)

\* lines 969-982: strip, drop a leading ssh://, refuse any other scheme
StripScheme(host) ==
    LET raw_host == IF host = NoneStr THEN <<>> ELSE Strip(host)
    IN  IF raw_host = <<>> THEN ParseError(ErrHostEmpty)
        ELSE IF StartsWith(Lower(raw_host), SshScheme)
        THEN LET rest == Strip(SubSeq(raw_host, 7, Len(raw_host)))
             IN  IF rest = <<>> THEN ParseError(ErrHostEmpty) ELSE Parsed(rest)
        ELSE IF HasSub(raw_host, SchemeSep) THEN ParseError(ErrScheme)
        ELSE Parsed(raw_host)

StripPath_KeepPath(raw_host) == Parsed(raw_host)

StripPath_DropPath(raw_host) ==
    IF HasChar(raw_host, "/")
    THEN Parsed(Strip(SubSeq(raw_host, 1, Find(raw_host, <<"/">>) - 1)))
    ELSE Parsed(raw_host)

\* lines 984-988: a "/" may only be followed by blanks
StripPath(raw_host) ==
    IF HasChar(raw_host, "/")
    THEN LET parts == SplitFirst(raw_host, <<"/">>)
         IN  IF Strip(parts.after) # <<>> THEN ParseError(ErrPath)
             ELSE Parsed(Strip(parts.before))
    ELSE Parsed(raw_host)

\* str.rfind for one character, 1-based; 0 when c does not occur
FindLastChar(s, c) ==
    IF HasChar(s, c)
    THEN CHOOSE i \in 1..Len(s) : s[i] = c /\ \A j \in (i + 1)..Len(s) : s[j] # c
    ELSE 0

SplitUser_LastAt(raw_host) ==
    IF HasChar(raw_host, "@")
    THEN LET i == FindLastChar(raw_host, "@")
             user_part == Strip(SubSeq(raw_host, 1, i - 1))
             rest == Strip(SubSeq(raw_host, i + 1, Len(raw_host)))
         IN  IF user_part = <<>> THEN ParseError(ErrEmbeddedUserEmpty)
             ELSE IF rest = <<>> THEN ParseError(ErrHostEmpty)
             ELSE [Parsed(rest) EXCEPT !.user = user_part]
    ELSE Parsed(raw_host)

\* lines 990-1001: the user in front of the first "@"
SplitUser(raw_host) ==
    IF HasChar(raw_host, "@")
    THEN LET parts == SplitFirst(raw_host, <<"@">>)
             user_part == Strip(parts.before)
             rest == Strip(parts.after)
         IN  IF user_part = <<>> THEN ParseError(ErrEmbeddedUserEmpty)
             ELSE IF rest = <<>> THEN ParseError(ErrHostEmpty)
             ELSE [Parsed(rest) EXCEPT !.user = user_part]
    ELSE Parsed(raw_host)

EmbeddedPort_DefaultOnError(host_part, port_text) ==
    LET n == ParseInt(Strip(port_text))
    IN  IF ~n.ok THEN Parsed(host_part)
        ELSE [Parsed(host_part) EXCEPT !.port = Some(n.value)]

\* lines 1014-1020 and 1025-1033: the port written in the host specification
EmbeddedPort(host_part, port_text) ==
    LET port_str == Strip(port_text)
        n == ParseInt(port_str)
    IN  IF port_str = <<>> THEN ParseError(ErrPortEmpty)
        ELSE IF ~n.ok THEN ParseError(ErrPortValue)
        ELSE [Parsed(host_part) EXCEPT !.port = Some(n.value)]

SplitHostPort_NoEmptyCheck(raw_host) ==
    IF StartsWith(raw_host, <<"[">>)
    THEN LET end == Find(raw_host, <<"]">>)
             inner_host == Strip(SubSeq(raw_host, 2, end - 1))
             remainder == SubSeq(raw_host, end + 1, Len(raw_host))
         IN  IF end = 0 THEN ParseError(ErrNoClosingBracket)
             ELSE IF remainder = <<>> THEN Parsed(inner_host)
             ELSE IF ~StartsWith(remainder, <<":">>) THEN ParseError(ErrAfterIPv6)
             ELSE EmbeddedPort(inner_host, Tail(remainder))
    ELSE IF Count(raw_host, ":") = 1
    THEN LET parts == SplitFirst(raw_host, <<":">>)
         IN  EmbeddedPort(Strip(parts.before), parts.after)
    ELSE Parsed(raw_host)

\* lines 1003-1039: [ipv6]:port, host:port, or the host alone
SplitHostPort(raw_host) ==
    LET result ==
            IF StartsWith(raw_host, <<"[">>)
            THEN LET end == Find(raw_host, <<"]">>)
                     inner_host == Strip(SubSeq(raw_host, 2, end - 1))
                     remainder == SubSeq(raw_host, end + 1, Len(raw_host))
                 IN  IF end = 0 THEN ParseError(ErrNoClosingBracket)
                     ELSE IF inner_host = <<>> THEN ParseError(ErrHostEmpty)
                     ELSE IF remainder = <<>> THEN Parsed(inner_host)
                     ELSE IF ~StartsWith(remainder, <<":">>) THEN ParseError(ErrAfterIPv6)
                     ELSE EmbeddedPort(inner_host, Tail(remainder))
            ELSE IF Count(raw_host, ":") = 1
            THEN LET parts == SplitFirst(raw_host, <<":">>)
                     host_part == Strip(parts.before)
                 IN  IF host_part = <<>> THEN ParseError(ErrHostEmpty)
                     ELSE IF Strip(parts.after) = <<>> THEN ParseError(ErrPortEmpty)
                     ELSE EmbeddedPort(host_part, parts.after)
            ELSE Parsed(raw_host)
    IN  IF result.error = None /\ result.rest = <<>> THEN ParseError(ErrHostEmpty)
        ELSE result

FinalPort_Clamped(detected_port, port) ==
    LET final_port == IF detected_port # NoneVal THEN detected_port[1] ELSE port
    IN  IF 1 <= final_port /\ final_port <= 65535 THEN final_port ELSE 22

FinalPort_ExplicitFirst(detected_port, port) == port

\* line 1041: the port of the host specification, else the port argument
FinalPort(detected_port, port) ==
    IF detected_port # NoneVal THEN detected_port[1] ELSE port

\* line 1049, 1050: the user of the host specification, else the user
\* argument; stripped
FinalUser_ExplicitFirst(detected_user, user) ==
    LET final_user == IF user # NoneStr /\ Strip(user) # <<>> THEN user ELSE detected_user
    IN  IF final_user = NoneStr THEN <<>> ELSE Strip(final_user)

FinalUser(detected_user, user) ==
    LET final_user == IF detected_user # NoneStr THEN detected_user ELSE user
    IN  IF final_user = NoneStr THEN <<>> ELSE Strip(final_user)

\* the instance __init__ leaves, or the SSHError it raises
SSHRunner(c) ==
    LET scheme == StripScheme(c.host)
        path == IF scheme.error = None THEN StripPath(scheme.rest) ELSE scheme
        userAt == IF path.error = None THEN SplitUser(path.rest) ELSE path
        hostPort == IF userAt.error = None THEN SplitHostPort(userAt.rest) ELSE userAt
        final_port == FinalPort(hostPort.port, c.port)
        final_user == FinalUser(userAt.user, c.user)
    IN  IF hostPort.error # None THEN [NoRunner EXCEPT !.error = hostPort.error]
        ELSE IF ~(1 <= final_port /\ final_port <= 65535)
        THEN [NoRunner EXCEPT !.error = ErrPortRange]
        ELSE IF final_user = <<>> THEN [NoRunner EXCEPT !.error = ErrUserEmpty]
        ELSE [ok |-> TRUE, error |-> None,
              host |-> hostPort.rest, port |-> final_port, user |-> final_user,
              key_path |-> c.key_path, key_data_b64 |-> c.key_data_b64,
              password |-> c.password, strict_host_key |-> c.strict_host_key]

----------------------------------------------------------------------------
(* SSHRunner._get_pkey, SSHRunner.run (app.py 1087-1135) and the handler   *)
(* ssh_run (1444-1453).                                                    *)

\* lines 1088-1103: where _get_pkey takes the private key from
PkeySource(r) ==
    IF Truthy(r.key_path) THEN "key_path"
    ELSE IF Truthy(r.key_data_b64) THEN "key_data_b64"
    ELSE None

\* lines 1112-1116: the arguments of client.connect for a loaded (or absent)
\* private key
ConnectArgs(r) ==
    LET source == PkeySource(r)
    IN  [called |-> TRUE, hostname |-> r.host, port |-> r.port, username |-> r.user,
         pkey |-> source,
         key |-> IF source = "key_path" THEN r.key_path
                 ELSE IF source = "key_data_b64" THEN r.key_data_b64
                 ELSE NoneStr,
         password |-> IF source = None THEN r.password ELSE NoneStr]

ErrKeyLoad == "Unsupported key"
ErrConnect == "connect failed"

\* lines 1446, 1461, 1490, first half: the connection parameters are resolved; an
\* HTTPException(400) ends the request
ResolveConnection ==
    /\ sshpc = "Resolve"
    /\ conn' = _resolve_ssh_connection(request, env, keyFile)
    /\ IF conn'.ok
       THEN sshpc' = "Construct" /\ reply' = reply
       ELSE sshpc' = "Done" /\ reply' = [reply EXCEPT !.status = conn'.status, !.detail = conn'.error]
    /\ UNCHANGED <<endpoint, request, env, keyFile, runner, auth, cmdVars, execVars, adbVars, deployVars, createVars>>

\* lines 1446, 1461, 1490, second half: SSHRunner(...) outside the try block, its
\* SSHError is not handled and the server answers 500
ConstructRunner ==
    /\ sshpc = "Construct"
    /\ runner' = SSHRunner(conn)
    /\ IF runner'.ok
       THEN sshpc' = "Run" /\ reply' = reply
       ELSE sshpc' = "Done" /\ reply' = [reply EXCEPT !.status = 500, !.detail = runner'.error]
    /\ UNCHANGED <<endpoint, request, env, keyFile, conn, auth, cmdVars, execVars, adbVars, deployVars, createVars>>

ErrNoBrowser == "No browser found"

\* the handlers that build an SSHRunner from the request: ssh_run (1444),
\* apps_launch (1459), browser_open (1488)
Endpoints == {"/ssh/run", "/apps/launch", "/browser/open"}

\* lines 1447-1453, 1476-1482, 1492-1563 with SSHRunner.run: the key is
\* loaded (or not), connect is called, the command runs; every exception of
\* run is an SSHError and is answered 400; browser_open answers 500 when
\* none of its browsers is found on the remote machine
RunCommand ==
    /\ sshpc = "Run"
    /\ \E keyLoads \in BOOLEAN, connects \in BOOLEAN, rc \in {0, 1}, found \in BOOLEAN :
          IF PkeySource(runner) # None /\ ~keyLoads
          THEN /\ auth' = auth
               /\ reply' = [reply EXCEPT !.status = 400, !.detail = ErrKeyLoad]
          ELSE /\ auth' = ConnectArgs(runner)
               /\ reply' = IF ~connects
                           THEN [reply EXCEPT !.status = 400, !.detail = ErrConnect]
                           ELSE IF endpoint = "/browser/open" /\ ~found
                           THEN [reply EXCEPT !.status = 500, !.detail = ErrNoBrowser]
                           ELSE [reply EXCEPT !.status = 200, !.rc = rc]
    /\ sshpc' = "Done"
    /\ UNCHANGED <<endpoint, request, env, keyFile, conn, runner, cmdVars, execVars, adbVars, deployVars, createVars>>

SSHNext ==
    \/ ResolveConnection
    \/ ConstructRunner
    \/ RunCommand

\* a request whose other parts are at rest
SSHStart ==
    /\ conn = NoConn
    /\ runner = NoRunner
    /\ auth = NoAuth
    /\ reply = NoReply
    /\ sshpc = "Resolve"
    /\ CmdIdle
    /\ ExecIdle
    /\ AdbIdle
    /\ DeployIdle
    /\ CreateIdle

----------------------------------------------------------------------------
(* /ssh/run requests that vary the user: in the host specification, in the *)
(* request and in the environment.                                         *)

\* the fragments host specifications are put together from
UserHostPieces ==
    { <<"h">>, <<"a","l">>, <<"@">>, <<" ">>, <<":","2","2">>, <<"s","s","h",":","/","/">> }

\* how many fragments a host specification has at most
MaxUserHostPieces == 3

UserHosts == {Flatten(ps) : ps \in SeqsUpTo(UserHostPieces, MaxUserHostPieces)}

ExplicitUsers == {NoneStr, <<" ">>, <<"b","o","b">>, <<" ","b","o","b">>}

UserInit ==
    /\ \E host \in UserHosts, user \in ExplicitUsers :
          request = [NoRequest EXCEPT !.host = host, !.user = user]
    /\ \E du \in {NoneStr, <<"d","e","f">>}, pu \in {NoneStr, <<" ">>, <<"p","v","e">>} :
          env = [EmptyEnv EXCEPT !["DEFAULT_SSH_USER"] = du, !["PVE_SSH_USER"] = pu]
    /\ endpoint = "/ssh/run"
    /\ keyFile = FALSE
    /\ SSHStart

SpecUser == UserInit /\ [][SSHNext]_vars

\* a value that is a string with something other than blanks in it
NonBlank(v) == v # NoneStr /\ Strip(v) # <<>>

\* the host specification of the request without blanks around it and
\* without a leading ssh://
HostText ==
    LET t == Strip(request.host)
    IN  IF StartsWith(Lower(t), SshScheme) THEN Strip(SubSeq(t, 7, Len(t))) ELSE t

\* the user written in front of the first "@" of the host specification,
\* None when there is no "@"
EmbeddedUser ==
    IF HasChar(HostText, "@") THEN Strip(SplitFirst(HostText, <<"@">>).before)
    ELSE NoneStr

\* the user of the environment (DEFAULT_SSH_USER, then PVE_SSH_USER), else
\* the literal root
EnvUserOrRoot ==
    IF NonBlank(env["DEFAULT_SSH_USER"]) THEN Strip(env["DEFAULT_SSH_USER"])
    ELSE IF NonBlank(env["PVE_SSH_USER"]) THEN Strip(env["PVE_SSH_USER"])
    ELSE Root

\* explicit user > embedded user > environment > root
UserExplicitFirst ==
    IF NonBlank(request.user) THEN Strip(request.user)
    ELSE IF EmbeddedUser # NoneStr THEN EmbeddedUser
    ELSE EnvUserOrRoot

\* embedded user > explicit user > environment > root
UserEmbeddedFirst ==
    IF EmbeddedUser # NoneStr THEN EmbeddedUser
    ELSE IF NonBlank(request.user) THEN Strip(request.user)
    ELSE EnvUserOrRoot

(* C8, as stated: the final SSH user is the explicit user of the request   *)
(* if it is not blank, else the user embedded in the host specification,   *)
(* else the environment default (DEFAULT_SSH_USER, then PVE_SSH_USER),     *)
(* else root; the runner holds it and connect() is called with it.         *)
C8_ExplicitUserFirst ==
    /\ runner.ok => runner.user = UserExplicitFirst
    /\ auth.called => auth.username = UserExplicitFirst

(* C8, amended: the final SSH user is the user embedded in the host        *)
(* specification if there is one, else the explicit user of the request if *)
(* it is not blank, else the environment default (DEFAULT_SSH_USER, then   *)
(* PVE_SSH_USER), else root; the runner holds it and connect() is called   *)
(* with it.                                                                *)
C8_EmbeddedUserFirst ==
    /\ runner.ok => runner.user = UserEmbeddedFirst
    /\ auth.called => auth.username = UserEmbeddedFirst

\* connect() was called for a request with an explicit user and a different
\* user in the host specification
C8_Witness ==
    /\ auth.called
    /\ NonBlank(request.user)
    /\ EmbeddedUser # NoneStr
    /\ EmbeddedUser # Strip(request.user)

----------------------------------------------------------------------------
(* /ssh/run requests that vary the credentials: of the request, of the     *)
(* environment, and the default key file.                                  *)

RequestKeyPaths == {NoneStr, <<" ">>, <<"/","k">>}
RequestKeyData == {NoneStr, <<"d">>}
RequestPasswords == {NoneStr, <<>>, <<"p","w">>}

CredInit ==
    /\ \E key_path \in RequestKeyPaths, key_data_b64 \in RequestKeyData,
          password \in RequestPasswords :
          request = [NoRequest EXCEPT !.host = <<"h">>, !.key_path = key_path,
                                      !.key_data_b64 = key_data_b64,
                                      !.password = password]
    /\ \E dk \in {NoneStr, <<"/","e">>}, pk \in {NoneStr, <<"/","p">>},
          db \in {NoneStr, <<"b">>},
          dp \in {NoneStr, <<"d","p">>}, pp \in {NoneStr, <<"p","p">>} :
          env = [EmptyEnv EXCEPT !["DEFAULT_SSH_KEY_PATH"] = dk,
                                 !["PVE_SSH_KEY_PATH"] = pk,
                                 !["DEFAULT_SSH_KEY_B64"] = db,
                                 !["DEFAULT_SSH_PASSWORD"] = dp,
                                 !["PVE_SSH_PASSWORD"] = pp]
    /\ endpoint = "/ssh/run"
    /\ keyFile \in BOOLEAN
    /\ SSHStart

SpecCred == CredInit /\ [][SSHNext]_vars

Credential(kind, value) == [kind |-> kind, value |-> value]

\* explicit key path > explicit key data > explicit password > environment
\* key path > environment password > default key file > none
ClaimedCredential ==
    IF NonBlank(request.key_path) THEN Credential("key_path", Strip(request.key_path))
    ELSE IF NonBlank(request.key_data_b64)
    THEN Credential("key_data_b64", Strip(request.key_data_b64))
    ELSE IF NonBlank(request.password) THEN Credential("password", Strip(request.password))
    ELSE IF NonBlank(env["DEFAULT_SSH_KEY_PATH"])
    THEN Credential("key_path", Strip(env["DEFAULT_SSH_KEY_PATH"]))
    ELSE IF NonBlank(env["PVE_SSH_KEY_PATH"])
    THEN Credential("key_path", Strip(env["PVE_SSH_KEY_PATH"]))
    ELSE IF NonBlank(env["DEFAULT_SSH_PASSWORD"])
    THEN Credential("password", Strip(env["DEFAULT_SSH_PASSWORD"]))
    ELSE IF NonBlank(env["PVE_SSH_PASSWORD"])
    THEN Credential("password", Strip(env["PVE_SSH_PASSWORD"]))
    ELSE IF keyFile THEN Credential("key_path", DefaultKeyFile)
    ELSE Credential(None, NoneStr)

\* the credential connect() was called with
UsedCredential ==
    IF auth.pkey # None THEN Credential(auth.pkey, auth.key)
    ELSE IF auth.password # NoneStr THEN Credential("password", auth.password)
    ELSE Credential(None, NoneStr)

(* C9: the credential a connection is made with is the first of: explicit  *)
(* key path, explicit key data, explicit password, key path of the         *)
(* environment, password of the environment, the default key file if it    *)
(* exists, none. (Requests under an environment with key data are left     *)
(* out: the precedence does not place them.)                               *)
C9_CredentialPrecedence ==
    (auth.called /\ env["DEFAULT_SSH_KEY_B64"] = NoneStr)
        => UsedCredential = ClaimedCredential

\* key path, key material and password that are populated in a record
Populated(r) == {f \in {"key_path", "key_data_b64", "password"} : r[f] # NoneStr}

(* C10: after resolution at most one of key path, key material and         *)
(* password is populated, in the resolved connection and in the runner     *)
(* built from it.                                                          *)
C10_AtMostOneCredential ==
    /\ conn.ok => Cardinality(Populated(conn)) <= 1
    /\ runner.ok => Cardinality(Populated(runner)) <= 1

----------------------------------------------------------------------------
(* Requests to the three endpoints that vary the host specification:       *)
(* scheme, user@, host, [ipv6], :port, trailing slash.                     *)

\* the fragments host specifications are put together from
HostPieces ==
    { <<"h">>, <<"a","l","@">>, <<"@">>, <<":","2","2","2","2">>, <<":">>, <<"[">>, <<"]">>,
      <<"[",":",":","1","]">>, <<"/">>, <<" ">>,
      <<"s","s","h",":","/","/">>, <<"S","s","h",":","/","/">>, <<"f","t","p",":","/","/">> }

\* how many fragments a host specification has at most
MaxHostPieces == 3

Hosts == {Flatten(ps) : ps \in SeqsUpTo(HostPieces, MaxHostPieces)}

HostInit ==
    /\ endpoint \in Endpoints
    /\ \E host \in Hosts : request = [NoRequest EXCEPT !.host = host]
    /\ env = EmptyEnv
    /\ keyFile = FALSE
    /\ SSHStart

SpecHost == HostInit /\ [][SSHNext]_vars

\* the host specification after the scheme and after the first "@" (all of
\* it when there is no "@"), without blanks around it
HostPart ==
    IF HasChar(HostText, "@") THEN Strip(SplitFirst(HostText, <<"@">>).after)
    ELSE HostText

(* C11, as stated: the host of a constructed SSHRunner contains no "@", no *)
(* ":", no "[" or "]" and no leading URI scheme.                           *)
C11_HostIsBare ==
    runner.ok =>
        /\ \A c \in {"@", ":", "[", "]"} : ~HasChar(runner.host, c)
        /\ ~HasSub(runner.host, SchemeSep)

(* C11, amended: the host of a constructed SSHRunner is not empty, has no  *)
(* blanks around it and contains no "/", hence no URI scheme. It contains  *)
(* "@" only if the specification had several "@", ":" only if the host     *)
(* part was bracketed or had several ":", "]" only if the host part did    *)
(* not start with "[", and "[" only if the host part did not start with    *)
(* "[" or had several "[".                                                 *)
C11_HostIsTrimmedWithoutSlash ==
    runner.ok =>
        /\ runner.host # <<>>
        /\ Strip(runner.host) = runner.host
        /\ ~HasChar(runner.host, "/")
        /\ ~HasSub(runner.host, SchemeSep)
        /\ HasChar(runner.host, "@") => Count(HostText, "@") >= 2
        /\ HasChar(runner.host, ":") =>
               (StartsWith(HostPart, <<"[">>) \/ Count(HostPart, ":") >= 2)
        /\ HasChar(runner.host, "]") => ~StartsWith(HostPart, <<"[">>)
        /\ HasChar(runner.host, "[") =>
               (~StartsWith(HostPart, <<"[">>) \/ Count(HostPart, "[") >= 2)

\* connect() was called with a host that kept an "@" of a specification with
\* several "@"
C11_Witness ==
    /\ auth.called
    /\ HasChar(auth.hostname, "@")
    /\ Count(request.host, "@") >= 2

----------------------------------------------------------------------------
(* /ssh/run requests that vary the port: in the host specification, in the *)
(* request and in the environment.                                         *)

\* the fragments host specifications are put together from
PortHostPieces ==
    { <<"h">>, <<"[","h","]">>, <<":">>, <<"2","2">>, <<"0">>, <<"7","0","0","0","0">>,
      <<" ">> }

\* how many fragments a host specification has at most
MaxPortHostPieces == 3

PortHosts == {Flatten(ps) : ps \in SeqsUpTo(PortHostPieces, MaxPortHostPieces)}

ExplicitPorts == {NoneVal, Some(2200), Some(0), Some(65536)}

PortInit ==
    /\ endpoint = "/ssh/run"
    /\ \E host \in PortHosts, port \in ExplicitPorts :
          request = [NoRequest EXCEPT !.host = host, !.port = port]
    /\ \E dp \in {NoneStr, <<"2","3","0","0">>, <<"0">>, <<"x">>},
          pp \in {NoneStr, <<" ">>, <<"2","4","0","0">>} :
          env = [EmptyEnv EXCEPT !["DEFAULT_SSH_PORT"] = dp, !["PVE_SSH_PORT"] = pp]
    /\ keyFile = FALSE
    /\ SSHStart

SpecPort == PortInit /\ [][SSHNext]_vars

\* the text of the port written in the host specification: after "]:" of a
\* bracketed host part, else after the ":" of a host part with one ":";
\* None when there is none
EmbeddedPortText ==
    IF StartsWith(HostPart, <<"[">>)
    THEN IF HasSub(HostPart, <<"]", ":">>)
         THEN Strip(SplitFirst(HostPart, <<"]", ":">>).after)
         ELSE NoneStr
    ELSE IF Count(HostPart, ":") = 1 THEN Strip(SplitFirst(HostPart, <<":">>).after)
    ELSE NoneStr

\* the port of the environment (DEFAULT_SSH_PORT, then PVE_SSH_PORT), else 22
EnvPortOr22 ==
    IF NonBlank(env["DEFAULT_SSH_PORT"]) THEN ParseInt(env["DEFAULT_SSH_PORT"]).value
    ELSE IF NonBlank(env["PVE_SSH_PORT"]) THEN ParseInt(env["PVE_SSH_PORT"]).value
    ELSE 22

\* embedded port > explicit port > environment > 22
PortEmbeddedFirst ==
    IF EmbeddedPortText # NoneStr THEN ParseInt(EmbeddedPortText).value
    ELSE IF request.port # NoneVal THEN request.port[1]
    ELSE EnvPortOr22

(* C12: the port of a constructed SSHRunner, and the port connect() is     *)
(* called with, is the port embedded in the host specification if there is *)
(* one, else the explicit port of the request, else the port of the        *)
(* environment (DEFAULT_SSH_PORT, then PVE_SSH_PORT), else 22.             *)
C12_EmbeddedPortFirst ==
    /\ runner.ok => runner.port = PortEmbeddedFirst
    /\ auth.called => auth.port = PortEmbeddedFirst

\* connect() was called for a request with an explicit port and a different
\* port in the host specification, under an environment with a port
C12_Witness ==
    /\ auth.called
    /\ EmbeddedPortText # NoneStr
    /\ request.port # NoneVal
    /\ NonBlank(env["DEFAULT_SSH_PORT"])
    /\ auth.port # request.port[1]

\* the request got as far as SSHRunner(...) and the port written in its host
\* specification, if any, is an integer
PortIsChosen ==
    /\ sshpc \in {"Run", "Done"}
    /\ conn.ok
    /\ EmbeddedPortText # NoneStr => ParseInt(EmbeddedPortText).ok

\* where the final port comes from
PortOrigin ==
    IF EmbeddedPortText # NoneStr THEN "embedded"
    ELSE IF request.port # NoneVal THEN "explicit"
    ELSE IF NonBlank(env["DEFAULT_SSH_PORT"]) \/ NonBlank(env["PVE_SSH_PORT"])
    THEN "environment"
    ELSE "default"

\* a host part without brackets: a non-blank host, then at most one ":" with
\* the port after it
PlainHostPart ==
    /\ ~HasChar(HostPart, "[") /\ ~HasChar(HostPart, "]")
    /\ Count(HostPart, ":") <= 1
    /\ Count(HostPart, ":") = 1 => Strip(SplitFirst(HostPart, <<":">>).before) # <<>>

(* C13: a constructed SSHRunner has a port from 1 to 65535; when the final *)
(* port (embedded, explicit or of the environment) is outside this range,  *)
(* construction fails with an error and no connection is made; for a host  *)
(* part that is well formed the error is the range error.                  *)
C13_PortInRange ==
    /\ runner.ok => (1 <= runner.port /\ runner.port <= 65535)
    /\ auth.called => (1 <= auth.port /\ auth.port <= 65535)
    /\ (PortIsChosen /\ ~(1 <= PortEmbeddedFirst /\ PortEmbeddedFirst <= 65535)) =>
          /\ ~runner.ok
          /\ runner.error # None
          /\ PlainHostPart => runner.error = ErrPortRange
          /\ ~auth.called
          /\ reply.status # 200

\* construction failed with the range error for a port of the environment
C13_Witness ==
    /\ sshpc = "Done"
    /\ runner.error = ErrPortRange
    /\ PortOrigin = "environment"

\* a text of decimal digits only
AllDigits(t) == t # <<>> /\ \A i \in 1..Len(t) : t[i] \in Digits

\* the host specification of the request is H:P, with a non-blank H without
\* ":", "@", "/" and "[", and P a decimal integer from 1 to 65535
IsHostColonPort ==
    /\ Count(request.host, ":") = 1
    /\ LET H == SplitFirst(request.host, <<":">>).before
           P == SplitFirst(request.host, <<":">>).after
       IN  /\ Strip(H) # <<>>
           /\ \A c \in {"@", "/", "["} : ~HasChar(H, c)
           /\ AllDigits(P)
           /\ 1 <= DigitsValue(P, 0) /\ DigitsValue(P, 0) <= 65535

(* C14: for a host specification H:P (H not blank, without ":", "@", "/"   *)
(* and "[", P a decimal integer from 1 to 65535) SSHRunner succeeds with   *)
(* port P and host H (without blanks around it), whatever the explicit     *)
(* port or the port of the environment is.                                 *)
C14_HostColonPort ==
    (IsHostColonPort /\ conn.ok /\ sshpc \in {"Run", "Done"}) =>
        /\ runner.ok
        /\ runner.port = DigitsValue(SplitFirst(request.host, <<":">>).after, 0)
        /\ runner.host = Strip(SplitFirst(request.host, <<":">>).before)
        /\ ~HasChar(runner.host, ":")

\* a runner was constructed for H:P and an explicit port that is another one
C14_Witness ==
    /\ IsHostColonPort
    /\ runner.ok
    /\ request.port # NoneVal
    /\ request.port[1] # runner.port

\* the host specification (after the scheme) is U@H, split at its first "@"
UserPartText == SplitFirst(HostText, <<"@">>).before
HostPartText == SplitFirst(HostText, <<"@">>).after

\* U@H with a plain H: not blank, no port, no path, no bracket in front
IsUserAtHost ==
    /\ HasChar(HostText, "@")
    /\ ~HasChar(HostText, "/")
    /\ Strip(HostPartText) # <<>>
    /\ ~HasChar(HostPartText, ":")
    /\ ~StartsWith(Strip(HostPartText), <<"[">>)

(* C15: for a host specification U@H with non-blank U and H and no         *)
(* explicit user in the request, SSHRunner succeeds with user U and host   *)
(* H, U being the text before the FIRST "@"; with a blank U it fails with  *)
(* the empty-user error.                                                   *)
C15_UserAtHost ==
    (IsUserAtHost /\ conn.ok /\ sshpc \in {"Run", "Done"}) =>
        /\ (Strip(UserPartText) # <<>> /\ ~NonBlank(request.user)) =>
              /\ runner.ok
              /\ runner.user = Strip(UserPartText)
              /\ runner.host = Strip(HostPartText)
        /\ Strip(UserPartText) = <<>> =>
              /\ ~runner.ok
              /\ runner.error = ErrEmbeddedUserEmpty

\* a runner was constructed for a specification with several "@" and no
\* explicit user, under an environment with a user
C15_Witness ==
    /\ IsUserAtHost
    /\ runner.ok
    /\ Count(HostText, "@") >= 2
    /\ request.user = NoneStr
    /\ NonBlank(env["DEFAULT_SSH_USER"])

\* the host part opens a bracket, and the specification got as far as the
\* host part: no path, no blank user in front of an "@"
IsBracketed ==
    /\ StartsWith(HostPart, <<"[">>)
    /\ ~HasChar(HostText, "/")
    /\ HasChar(HostText, "@") => Strip(UserPartText) # <<>>

\* the text between "[" and the first "]", and the text after that "]"
BracketInner == Strip(SubSeq(HostPart, 2, Find(HostPart, <<"]">>) - 1))
BracketRest == SubSeq(HostPart, Find(HostPart, <<"]">>) + 1, Len(HostPart))

\* the error the claim names for a bracketed host part, None when it names
\* none
BracketError ==
    IF ~HasChar(HostPart, "]") THEN ErrNoClosingBracket
    ELSE IF BracketInner = <<>> THEN ErrHostEmpty
    ELSE IF BracketRest = <<>> THEN None
    ELSE IF Head(BracketRest) # ":" THEN ErrAfterIPv6
    ELSE IF Strip(Tail(BracketRest)) = <<>> THEN ErrPortEmpty
    ELSE IF ~AllDigits(Strip(Tail(BracketRest))) THEN ErrPortValue
    ELSE None

(* C16: for a host part starting with "[" SSHRunner takes the text between *)
(* "[" and the first "]" as host and, if ":P" follows the "]", P as port,   *)
(* else the port argument; it fails when "]" is missing, the content is    *)
(* blank, the text after "]" does not start with ":", the port is empty or *)
(* the port is not an integer.                                             *)
C16_BracketedHost ==
    (IsBracketed /\ conn.ok /\ sshpc \in {"Run", "Done"}) =>
        IF BracketError # None
        THEN ~runner.ok /\ runner.error = BracketError /\ ~auth.called
        ELSE /\ runner.ok
             /\ runner.host = BracketInner
             /\ runner.port = IF BracketRest = <<>> THEN conn.port
                              ELSE DigitsValue(Strip(Tail(BracketRest)), 0)

\* connect() was called with the host and the port of [::1]:2222
C16_Witness ==
    /\ IsBracketed
    /\ auth.called
    /\ auth.hostname = <<":", ":", "1">>
    /\ auth.port = 2222

\* the host specification of the request starts with ssh://, in any case
HasSshScheme == StartsWith(Lower(Strip(request.host)), SshScheme)

\* what SSHRunner makes of the host specification h, all else as resolved
RunnerFor(h) == SSHRunner([conn EXCEPT !.host = h])

SchemePasses == HasSshScheme \/ ~HasSub(request.host, SchemeSep)

\* the host specification (after the scheme) before and after its first "/"
BeforeSlash == SplitFirst(HostText, <<"/">>).before
AfterSlash == SplitFirst(HostText, <<"/">>).after

(* C18: a host specification (after the scheme) with a "/" followed by     *)
(* text that is not blank fails with the path-component error; one whose   *)
(* "/" has nothing but blanks after it is parsed as the text before the    *)
(* "/" is: same host, user and port, or same error.                        *)
C18_PathComponent ==
    (conn.ok /\ sshpc \in {"Run", "Done"} /\ SchemePasses /\ HasChar(HostText, "/")) =>
        IF Strip(AfterSlash) # <<>>
        THEN ~runner.ok /\ runner.error = ErrPath /\ ~auth.called
        ELSE runner = RunnerFor(BeforeSlash)

\* connect() was called with the user and the host of al@h/
C18_Witness ==
    /\ HasChar(request.host, "/")
    /\ auth.called
    /\ auth.username = <<"a", "l">>
    /\ auth.hostname = <<"h">>

\* the host specification gets as far as the host part: the scheme test
\* passes, no path, no blank user in front of an "@"
ReachesHostPart ==
    /\ SchemePasses
    /\ HasChar(HostText, "/") => Strip(AfterSlash) = <<>>
    /\ HasChar(HostText, "@") => Strip(UserPartText) # <<>>

\* the host specification without scheme, trailing slash and user@
BareHostPart ==
    LET noPath == IF HasChar(HostText, "/") THEN Strip(BeforeSlash) ELSE HostText
    IN  IF HasChar(noPath, "@") THEN Strip(SplitFirst(noPath, <<"@">>).after) ELSE noPath

\* the host that is left when brackets and :port are removed as well; for a
\* bracket that is not closed there is none to speak of
CoreHost ==
    IF StartsWith(BareHostPart, <<"[">>)
    THEN IF HasChar(BareHostPart, "]")
         THEN Strip(SubSeq(BareHostPart, 2, Find(BareHostPart, <<"]">>) - 1))
         ELSE BareHostPart
    ELSE IF Count(BareHostPart, ":") = 1
    THEN Strip(SplitFirst(BareHostPart, <<":">>).before)
    ELSE BareHostPart

(* C19: an empty or whitespace-only host fails with the empty-host error   *)
(* (in the resolver when request and environment give none, in SSHRunner   *)
(* when it is handed one); a constructed SSHRunner has a host that is not  *)
(* blank; a specification whose host is blank once scheme, user@, :port,   *)
(* brackets and trailing slash are removed fails with the empty-host error *)
(* and no connection is made.                                              *)
C19_HostNotEmpty ==
    /\ \A h \in {NoneStr, <<>>, <<" ">>, <<" ", " ">>} :
          ~RunnerFor(h).ok /\ RunnerFor(h).error = ErrHostEmpty
    /\ (sshpc # "Resolve" /\ ~NonBlank(request.host)) =>
          /\ ~conn.ok /\ conn.error = ErrNoHost
          /\ reply.status = 400
          /\ ~runner.ok /\ ~auth.called
    /\ runner.ok => Strip(runner.host) # <<>>
    /\ auth.called => Strip(auth.hostname) # <<>>
    /\ (conn.ok /\ sshpc \in {"Run", "Done"} /\ ReachesHostPart /\ Strip(CoreHost) = <<>>) =>
          /\ ~runner.ok /\ runner.error = ErrHostEmpty
          /\ ~auth.called

\* construction failed with the empty-host error for a specification that
\* has a port but no host in front of it
C19_Witness ==
    /\ sshpc = "Done"
    /\ runner.error = ErrHostEmpty
    /\ ReachesHostPart
    /\ Count(BareHostPart, ":") = 1
    /\ Strip(CoreHost) = <<>>

\* the request ended because its host specification (or port) was rejected:
\* by _resolve_ssh_connection or by SSHRunner.__init__
HostRejected == sshpc = "Done" /\ (~conn.ok \/ ~runner.ok)

(* C20: on /ssh/run, /apps/launch and /browser/open a host specification   *)
(* that is rejected (empty host, unsupported scheme, path component, empty *)
(* user, empty, invalid or out-of-range port, bad bracket form) is         *)
(* answered with a 400-class status, never with a 500-class one.           *)
C20_RejectedHostIsClientError ==
    HostRejected => (400 <= reply.status /\ reply.status <= 499)

\* a /ssh/run request ended with an error of SSHRunner.run: the key could
\* not be loaded, or connecting, authenticating or executing failed
RunFailed ==
    /\ endpoint = "/ssh/run"
    /\ sshpc = "Done"
    /\ runner.ok
    /\ reply.detail \in {ErrKeyLoad, ErrConnect}

(* C21: an error raised inside SSHRunner.run while a /ssh/run request is   *)
(* served is answered with a 500-class status, not with a 400-class one    *)
(* and not with a success.                                                 *)
C21_RunErrorIsServerError ==
    RunFailed => (500 <= reply.status /\ reply.status <= 599)

----------------------------------------------------------------------------
(* Line breaks and the join of lxc_exec.                                   *)

LineBreaks == {"\n", "\r"}

HasLineBreak(s) == \E c \in LineBreaks : HasChar(s, c)

\* C26: no command accepted by _validate_command contains a line break
\* (newline or carriage return).
C26_NoLineBreakAccepted ==
    pc = "Accepted" => ~HasLineBreak(outcome.value)

\* the `segments` of an accepted command
SegmentsOf(c) == SplitSegments(ShlexSplit(Strip(c)).tokens).segments

\* the segment lists of the elements, one after the other
ConcatSegments(list) ==
    Flatten([i \in 1..Len(list) |-> SegmentsOf(list[i])])

\* lxc_exec has joined an accepted commands list
Joined ==
    /\ execpc = "Done"
    /\ model.ok
    /\ model.commands # NoneList
    /\ shellCmd # NoneStr

\* C27: the string lxc_exec builds by joining a non-empty list of accepted
\* commands with " && " is itself accepted by _validate_command, and its
\* segment list is the concatenation, in order, of the segment lists of the
\* elements.
C27_JoinIsAccepted ==
    Joined =>
        /\ model.commands # <<>>
        /\ \A i \in 1..Len(model.commands) : _validate_command(model.commands[i]).ok
        /\ _validate_command(shellCmd).ok
        /\ SegmentsOf(shellCmd) = ConcatSegments(model.commands)

\* a chained element and an element with a line break are joined: three
\* segments out of two elements
C27_Witness ==
    /\ Joined
    /\ model.commands = << <<"l","s"," ","&","&"," ","l","s">>, <<"l","s","\n","x">> >>
    /\ Len(SegmentsOf(shellCmd)) = 3
----------------------------------------------------------------------------
(* BlissOS ADB target resolution: _parse_adb_port, _resolve_bliss_port,    *)
(* _looks_like_hostname, _resolve_bliss_serial, _resolve_bliss_address     *)
(* (app.py 780-860).                                                       *)

ErrAdbPortValue == "Invalid BlissOS ADB port value"
ErrAdbPortRange == "BlissOS ADB port must be between 1 and 65535"
ErrSerialLacksHost == "Provide BlissOS ADB host/port for TCP connection (serial lacks host:port)"
ErrNoTarget == "BlissOS ADB target is not configured. Provide 'serial' or configure BLISS_ADB_SERIAL/BLISS_ADB_ADDRESS."

\* the decimal digit of a value below ten
DigitChar(d) == CHOOSE c \in Digits : DigitValue(c) = d

\* str(n) of a natural number, as the f-string of line 824 formats the port
RECURSIVE IntToStr(_)
IntToStr(n) ==
    IF n < 10 THEN <<DigitChar(n)>>
    ELSE IntToStr(n \div 10) \o <<DigitChar(n % 10)>>

\* lines 780-789; the argument is None, an int (the request's port) or a
\* str (the environment's)
_parse_adb_port(value) ==
    IF value.kind = "None" THEN [ok |-> TRUE, port |-> NoneVal, error |-> None]
    ELSE LET parsed == IF value.kind = "int"
                       THEN [ok |-> TRUE, value |-> value.int]
                       ELSE ParseInt(value.str)
         IN  IF ~parsed.ok
             THEN [ok |-> FALSE, port |-> NoneVal, error |-> ErrAdbPortValue]
             ELSE IF ~(1 <= parsed.value /\ parsed.value <= 65535)
             THEN [ok |-> FALSE, port |-> NoneVal, error |-> ErrAdbPortRange]
             ELSE [ok |-> TRUE, port |-> Some(parsed.value), error |-> None]

\* lines 792-798
_resolve_bliss_port(spec, e) ==
    LET env_val == _env_non_empty(e, "BLISS_ADB_PORT")
        port_candidate ==
            IF spec.port # NoneVal THEN [kind |-> "int", int |-> spec.port[1]]
            ELSE IF env_val # NoneStr THEN [kind |-> "str", str |-> env_val]
            ELSE [kind |-> "None"]
    IN  _parse_adb_port(port_candidate)

\* lines 801-802
_looks_like_hostname(value) == \E ch \in {".", ":"} : HasChar(value, ch)

\* a _with_port that appends the default port, whatever was resolved
_with_port_DefaultOnly(value, port) ==
    LET v == Strip(value)
    IN  IF v = <<>> THEN v
        ELSE IF HasChar(v, ":") THEN v
        ELSE v \o <<":">> \o IntToStr(5555)

\* lines 817-824, the closure with its free variable `port`
_with_port(value, port) ==
    LET v == Strip(value)
        port_value == IF port = NoneVal \/ port[1] = 0 THEN 5555 ELSE port[1]
    IN  IF v = <<>> THEN v
        ELSE IF HasChar(v, ":") THEN v
        ELSE v \o <<":">> \o IntToStr(port_value)

\* lines 805-856; the result is the returned string or the HTTPException
_resolve_bliss_serial(spec, e, require_tcp) ==
    LET p == _resolve_bliss_port(spec, e)
        serial_candidate ==
            _first_non_empty(<<spec.serial, _env_non_empty(e, "BLISS_ADB_SERIAL")>>)
        host_candidate ==
            _first_non_empty(<<spec.host, _env_non_empty(e, "BLISS_ADB_HOST")>>)
        address_candidate == _env_non_empty(e, "BLISS_ADB_ADDRESS")
        Found(v) == [ok |-> TRUE, value |-> v, status |-> 0, error |-> None]
        Fail(msg) == [ok |-> FALSE, value |-> NoneStr, status |-> 400, error |-> msg]
        serial == Strip(serial_candidate)
    IN  IF ~p.ok THEN Fail(p.error)
        ELSE IF Truthy(serial_candidate) /\ serial # <<>>
        THEN IF HasChar(serial, ":") THEN Found(serial)
             ELSE IF require_tcp
             THEN IF _looks_like_hostname(serial) THEN Found(_with_port(serial, p.port))
                  ELSE IF Truthy(host_candidate) THEN Found(_with_port(host_candidate, p.port))
                  ELSE IF Truthy(address_candidate) THEN Found(_with_port(address_candidate, p.port))
                  ELSE Fail(ErrSerialLacksHost)
             ELSE IF _looks_like_hostname(serial) THEN Found(_with_port(serial, p.port))
             ELSE Found(serial)
        ELSE IF Truthy(host_candidate) THEN Found(_with_port(host_candidate, p.port))
        ELSE IF Truthy(address_candidate) THEN Found(_with_port(address_candidate, p.port))
        ELSE Fail(ErrNoTarget)

\* a resolver that does not ask for a TCP address
_resolve_bliss_address_AnySerial(spec, e) == _resolve_bliss_serial(spec, e, FALSE)

\* lines 859-860
_resolve_bliss_address(spec, e) == _resolve_bliss_serial(spec, e, TRUE)

----------------------------------------------------------------------------
(* POST /bliss/adb/connect: BlissADBConnectSpec (444-482), _run_adb         *)
(* (875-896) and bliss_adb_connect (1310-1365).                            *)

\* Field(ge=1, le=65535) of BlissADBTarget.port
PortFieldOk(port) == port = NoneVal \/ (1 <= port[1] /\ port[1] <= 65535)

ErrPortField == "Input should be greater than or equal to 1 and less than or equal to 65535"

\* what one call of _run_adb does: the process ends with a return code, or
\* ADBError is raised with status 504 (time-out) or 500
AdbOutcomes ==
    { [raised |-> FALSE, rc |-> 0, status |-> 0],
      [raised |-> FALSE, rc |-> 1, status |-> 0],
      [raised |-> TRUE, rc |-> 0, status |-> 504],
      [raised |-> TRUE, rc |-> 0, status |-> 500] }

AdbCall(args, o) == [args |-> args, raised |-> o.raised, rc |-> o.rc, status |-> o.status]

Disconnect == <<"d","i","s","c","o","n","n","e","c","t">>
Connect == <<"c","o","n","n","e","c","t">>
WaitForDevice == <<"w","a","i","t","-","f","o","r","-","d","e","v","i","c","e">>
DashS == <<"-","s">>

ErrAdb == "ADBError"

\* the request body is validated; FastAPI answers 422 when it is not valid
ConstructConnectSpec ==
    /\ adbpc = "Request"
    /\ IF PortFieldOk(blissSpec.port)
       THEN adbpc' = "ResolveAddress" /\ adbReply' = adbReply
       ELSE adbpc' = "Done" /\ adbReply' = [adbReply EXCEPT !.status = 422, !.detail = ErrPortField]
    /\ UNCHANGED <<blissSpec, blissEnv, address, adbCalls, adbSteps,
                   cmdVars, execVars, sshVars, deployVars, createVars>>

\* line 1312
ResolveAddress ==
    /\ adbpc = "ResolveAddress"
    /\ address' = _resolve_bliss_address(blissSpec, blissEnv)
    /\ IF address'.ok
       THEN /\ adbpc' = IF blissSpec.force_disconnect THEN "Disconnect" ELSE "Connect"
            /\ adbReply' = adbReply
       ELSE /\ adbpc' = "Done"
            /\ adbReply' = [adbReply EXCEPT !.status = address'.status, !.detail = address'.error]
    /\ UNCHANGED <<blissSpec, blissEnv, adbCalls, adbSteps,
                   cmdVars, execVars, sshVars, deployVars, createVars>>

\* lines 1316-1323, with the except clause of 1332-1333
AdbDisconnect ==
    /\ adbpc = "Disconnect"
    /\ \E o \in AdbOutcomes :
          /\ adbCalls' = Append(adbCalls, AdbCall(<<Disconnect, address.value>>, o))
          /\ IF o.raised
             THEN /\ adbpc' = "Done"
                  /\ adbSteps' = adbSteps
                  /\ adbReply' = [adbReply EXCEPT !.status = o.status, !.detail = ErrAdb]
             ELSE /\ adbpc' = "Connect"
                  /\ adbSteps' = Append(adbSteps, [action |-> "disconnect", rc |-> o.rc])
                  /\ adbReply' = adbReply
    /\ UNCHANGED <<blissSpec, blissEnv, address,
                   cmdVars, execVars, sshVars, deployVars, createVars>>

\* a connect_ok that does not look at the return code
connect_ok_Always(steps) == steps # <<>>

\* line 1336
connect_ok(steps) == IF steps # <<>> THEN steps[Len(steps)].rc = 0 ELSE FALSE

\* lines 1325-1337: connect, then whether wait-for-device follows
AdbConnect ==
    /\ adbpc = "Connect"
    /\ \E o \in AdbOutcomes :
          /\ adbCalls' = Append(adbCalls, AdbCall(<<Connect, address.value>>, o))
          /\ IF o.raised
             THEN /\ adbpc' = "Done"
                  /\ adbSteps' = adbSteps
                  /\ adbReply' = [adbReply EXCEPT !.status = o.status, !.detail = ErrAdb]
             ELSE /\ adbSteps' = Append(adbSteps, [action |-> "connect", rc |-> o.rc])
                  /\ adbpc' = IF blissSpec.wait_for_device /\ connect_ok(adbSteps')
                              THEN "Wait" ELSE "Respond"
                  /\ adbReply' = adbReply
    /\ UNCHANGED <<blissSpec, blissEnv, address,
                   cmdVars, execVars, sshVars, deployVars, createVars>>

\* lines 1338-1354
AdbWaitForDevice ==
    /\ adbpc = "Wait"
    /\ \E o \in AdbOutcomes :
          /\ adbCalls' = Append(adbCalls, AdbCall(<<DashS, address.value, WaitForDevice>>, o))
          /\ adbSteps' = Append(adbSteps, [action |-> "wait-for-device",
                                          rc |-> IF o.raised THEN -1 ELSE o.rc])
    /\ adbpc' = "Respond"
    /\ UNCHANGED <<blissSpec, blissEnv, address, adbReply,
                   cmdVars, execVars, sshVars, deployVars, createVars>>

\* next((s for s in steps if s.get("action") == name), None), as the set of
\* its results: empty for None
StepsNamed(steps, name) ==
    LET at == {i \in 1..Len(steps) : steps[i].action = name}
    IN  {steps[i] : i \in {j \in at : \A k \in at : j <= k}}

\* lines 1356-1360
Connected(steps) ==
    /\ \E c \in StepsNamed(steps, "connect") : c.rc = 0
    /\ \A w \in StepsNamed(steps, "wait-for-device") : w.rc = 0

\* lines 1356-1365
ConnectRespond ==
    /\ adbpc = "Respond"
    /\ adbReply' = [adbReply EXCEPT !.status = 200, !.address = address.value,
                                    !.connected = Connected(adbSteps), !.steps = adbSteps]
    /\ adbpc' = "Done"
    /\ UNCHANGED <<blissSpec, blissEnv, address, adbCalls, adbSteps,
                   cmdVars, execVars, sshVars, deployVars, createVars>>

ConnectNext ==
    \/ ConstructConnectSpec
    \/ ResolveAddress
    \/ AdbDisconnect
    \/ AdbConnect
    \/ AdbWaitForDevice
    \/ ConnectRespond

\* the values of the request's serial, host and port and of the environment
RequestSerials == {NoneStr, <<" ">>, <<"S","N">>, <<"s",".","b">>, <<"s",":","1">>}
RequestHosts == {NoneStr, <<"h">>, <<"h",":","2">>}
RequestPorts == {NoneVal, Some(5560), Some(0)}
EnvSerials == {NoneStr, <<"E","S">>}
EnvHosts == {NoneStr, <<"e","h">>}
EnvAddresses == {NoneStr, <<"a",":","4">>, <<"a">>}
EnvPorts == {NoneStr, <<"5","5","7","0">>, <<"0">>, <<"x">>}

BlissEnvs ==
    {[n \in BlissEnvNames |->
         CASE n = "BLISS_ADB_SERIAL" -> es
           [] n = "BLISS_ADB_HOST" -> eh
           [] n = "BLISS_ADB_ADDRESS" -> ea
           [] OTHER -> ep] :
     es \in EnvSerials, eh \in EnvHosts, ea \in EnvAddresses, ep \in EnvPorts}

\* a request whose other parts are at rest
AdbStart ==
    /\ address = NoAddress
    /\ adbCalls = <<>>
    /\ adbSteps = <<>>
    /\ adbReply = NoAdbReply
    /\ adbpc = "Request"
    /\ CmdIdle
    /\ ExecIdle
    /\ SSHIdle
    /\ DeployIdle
    /\ CreateIdle

ConnectInit ==
    /\ \E serial \in RequestSerials, host \in RequestHosts, port \in RequestPorts,
          fd \in BOOLEAN, wait \in BOOLEAN :
          blissSpec = [NoBlissSpec EXCEPT !.serial = serial, !.host = host, !.port = port,
                                          !.force_disconnect = fd, !.wait_for_device = wait]
    /\ blissEnv \in BlissEnvs
    /\ AdbStart

SpecConnect == ConnectInit /\ [][ConnectNext]_vars
----------------------------------------------------------------------------
(* Properties of the ADB target resolution.                                *)

\* the handler has called _resolve_bliss_address
AddressResolved == adbpc \in {"Disconnect", "Connect", "Wait", "Respond", "Done"} /\ adbReply.status # 422

\* the first of two optional texts that is given and not blank, trimmed
FirstGiven(a, b) ==
    IF NonBlank(a) THEN Strip(a) ELSE IF NonBlank(b) THEN Strip(b) ELSE NoneStr

SerialGiven == FirstGiven(blissSpec.serial, blissEnv["BLISS_ADB_SERIAL"])
HostGiven == FirstGiven(blissSpec.host, blissEnv["BLISS_ADB_HOST"])
AddressGiven == FirstGiven(blissEnv["BLISS_ADB_ADDRESS"], NoneStr)

\* the serial stands for a TCP address
SerialIsAddress ==
    SerialGiven # NoneStr /\ (HasChar(SerialGiven, ":") \/ HasChar(SerialGiven, "."))

\* the target by the stated precedence, None when no source yields one
ClaimedTarget ==
    IF SerialIsAddress THEN SerialGiven
    ELSE IF HostGiven # NoneStr THEN HostGiven
    ELSE AddressGiven

\* the resolver did not stop at the port
PortAccepted == address.error \notin {ErrAdbPortValue, ErrAdbPortRange}

\* the address is the target, with or without a port after it
IsTargetOrTargetPort(a, t) ==
    a = t \/ (~HasChar(t, ":") /\ StartsWith(a, t \o <<":">>))

\* C22: _resolve_bliss_address selects the target with the precedence
\* serial (request, else BLISS_ADB_SERIAL) when it contains ":" or looks like
\* a hostname > host (request, else BLISS_ADB_HOST) > BLISS_ADB_ADDRESS; a
\* request host overrides BLISS_ADB_ADDRESS, BLISS_ADB_ADDRESS is used when
\* nothing else is given, a serial with neither ":" nor "." is replaced by
\* the host when there is one, and with no source the call fails with 400.
C22_TargetPrecedence ==
    AddressResolved =>
        /\ ClaimedTarget = NoneStr => (~address.ok /\ adbReply.status = 400)
        /\ address.ok =>
              /\ ClaimedTarget # NoneStr
              /\ IsTargetOrTargetPort(address.value, ClaimedTarget)
        /\ (ClaimedTarget # NoneStr /\ PortAccepted) => address.ok
        /\ (NonBlank(blissSpec.host) /\ ~SerialIsAddress /\ address.ok) =>
              IsTargetOrTargetPort(address.value, Strip(blissSpec.host))

\* a serial that is no address gives way to the host of the environment,
\* which in turn beats BLISS_ADB_ADDRESS
C22_Witness ==
    /\ adbpc = "Done"
    /\ blissSpec.serial = <<"S","N">>
    /\ blissSpec.host = NoneStr
    /\ blissEnv["BLISS_ADB_HOST"] = <<"e","h">>
    /\ blissEnv["BLISS_ADB_ADDRESS"] = <<"a",":","4">>
    /\ address.ok
    /\ address.value = <<"e","h",":","5","5","5","5">>

\* the port by the stated precedence
ClaimedPort ==
    IF blissSpec.port # NoneVal THEN blissSpec.port[1]
    ELSE IF NonBlank(blissEnv["BLISS_ADB_PORT"])
         THEN ParseInt(Strip(blissEnv["BLISS_ADB_PORT"])).value
    ELSE 5555

\* C23: every address _resolve_bliss_address returns contains ":"; a target
\* without ":" comes back as target:port, the port being the request's, else
\* BLISS_ADB_PORT, else 5555, and in 1..65535; a target with ":" comes back
\* unchanged.
C23_AddressHasPort ==
    (AddressResolved /\ address.ok) =>
        /\ HasChar(address.value, ":")
        /\ HasChar(ClaimedTarget, ":") => address.value = ClaimedTarget
        /\ ~HasChar(ClaimedTarget, ":") =>
              /\ SplitFirst(address.value, <<":">>).before = ClaimedTarget
              /\ AllDigits(SplitFirst(address.value, <<":">>).after)
              /\ ParseInt(SplitFirst(address.value, <<":">>).after).value = ClaimedPort
              /\ 1 <= ClaimedPort /\ ClaimedPort <= 65535

\* the port of the request is appended, not that of the environment
C23_Witness ==
    /\ adbpc = "Done"
    /\ blissSpec.port = Some(5560)
    /\ blissEnv["BLISS_ADB_PORT"] = <<"5","5","7","0">>
    /\ address.ok
    /\ address.value = <<"h",":","5","5","6","0">>

----------------------------------------------------------------------------
(* Properties of bliss_adb_connect.                                        *)

\* the adb subcommand of a call
CallName(c) == IF c.args[1] = DashS THEN c.args[3] ELSE c.args[1]

\* the device a call addresses
CallTarget(c) == c.args[2]

CallRank(c) ==
    CASE CallName(c) = Disconnect -> 1
      [] CallName(c) = Connect -> 2
      [] CallName(c) = WaitForDevice -> 3
      [] OTHER -> 0

\* the calls of a subcommand
CallsNamed(name) == {adbCalls[i] : i \in {j \in 1..Len(adbCalls) : CallName(adbCalls[j]) = name}}

\* bliss_adb_connect has ended, with a response or an HTTPException
ConnectEnded == adbpc = "Done" /\ address.ok

\* C28: the invocations come in the order disconnect (only with
\* force_disconnect), connect, wait-for-device; connect is attempted whatever
\* disconnect returned; wait-for-device is invoked only when wait_for_device
\* is set and connect returned 0; `connected` is true iff connect returned 0
\* and wait-for-device, when it ran, returned 0; an ADBError of
\* wait-for-device is a step with rc -1 and connected = false, an ADBError of
\* disconnect or connect is an HTTP error.
C28_ConnectSequence ==
    /\ \A i, j \in 1..Len(adbCalls) :
          i < j => (0 < CallRank(adbCalls[i]) /\ CallRank(adbCalls[i]) < CallRank(adbCalls[j]))
    /\ \A i \in 1..Len(adbCalls) :
          CallRank(adbCalls[i]) > 0 /\ CallTarget(adbCalls[i]) = address.value
    /\ CallsNamed(Disconnect) # {} => blissSpec.force_disconnect
    /\ ConnectEnded =>
          /\ blissSpec.force_disconnect => CallsNamed(Disconnect) # {}
          /\ (\A d \in CallsNamed(Disconnect) : ~d.raised) => CallsNamed(Connect) # {}
          /\ CallsNamed(WaitForDevice) # {} <=>
                /\ blissSpec.wait_for_device
                /\ \E c \in CallsNamed(Connect) : ~c.raised /\ c.rc = 0
          /\ \A c \in CallsNamed(Disconnect) \cup CallsNamed(Connect) :
                c.raised => (adbReply.status = c.status /\ adbReply.status >= 400)
          /\ adbReply.status = 200 <=>
                \A c \in CallsNamed(Disconnect) \cup CallsNamed(Connect) : ~c.raised
          /\ adbReply.status = 200 =>
                /\ adbReply.connected <=>
                      /\ \E c \in CallsNamed(Connect) : c.rc = 0
                      /\ \A w \in CallsNamed(WaitForDevice) : ~w.raised /\ w.rc = 0
                /\ Len(adbReply.steps) = Len(adbCalls)
                /\ \A w \in CallsNamed(WaitForDevice) :
                      w.raised =>
                         /\ adbReply.steps[Len(adbReply.steps)] =
                               [action |-> "wait-for-device", rc |-> -1]
                         /\ ~adbReply.connected

\* disconnect fails, connect succeeds all the same, wait-for-device raises
C28_Witness ==
    /\ ConnectEnded
    /\ Len(adbCalls) = 3
    /\ adbCalls[1].rc = 1
    /\ adbCalls[3].raised
    /\ adbReply.status = 200
    /\ ~adbReply.connected
----------------------------------------------------------------------------
(* POST /bliss/adb/shell: BlissADBShellSpec (492-518),                     *)
(* _normalize_shell_commands (899-907) and bliss_adb_shell (1391-1419).    *)

ErrShellNeither == "Either 'cmd' or 'commands' must be provided"
ErrShellBoth == "Use only one of 'cmd' or 'commands'"
ErrShellEmpty == "ADB shell command cannot be empty"

\* lines 513-518: model validator, None when it returns self
_check_payload(cmd, cmds) ==
    IF ~Truthy(cmd) /\ ~TruthyList(cmds) THEN ErrShellNeither
    ELSE IF Truthy(cmd) /\ TruthyList(cmds) THEN ErrShellBoth
    ELSE None

\* `item or ""` of line 903
OrEmpty(item) == IF item = NoneStr THEN <<>> ELSE item

\* lines 899-907
_normalize_shell_commands(spec) ==
    LET items == IF spec.commands # NoneList THEN spec.commands ELSE <<spec.cmd>>
        stripped == [i \in 1..Len(items) |-> Strip(OrEmpty(items[i]))]
    IN  IF \E i \in 1..Len(items) : stripped[i] = <<>>
        THEN [ok |-> FALSE, commands |-> <<>>, error |-> ErrShellEmpty]
        ELSE [ok |-> TRUE, commands |-> stripped, error |-> None]

\* the request body is validated; FastAPI answers 422 when it is not valid
ConstructShellSpec ==
    /\ adbpc = "ShellRequest"
    /\ IF ~PortFieldOk(blissSpec.port)
       THEN adbpc' = "Done" /\ adbReply' = [adbReply EXCEPT !.status = 422, !.detail = ErrPortField]
       ELSE IF _check_payload(blissSpec.cmd, blissSpec.commands) # None
       THEN /\ adbpc' = "Done"
            /\ adbReply' = [adbReply EXCEPT !.status = 422,
                               !.detail = _check_payload(blissSpec.cmd, blissSpec.commands)]
       ELSE adbpc' = "ResolveSerial" /\ adbReply' = adbReply
    /\ UNCHANGED <<blissSpec, blissEnv, address, adbCalls, adbSteps,
                   cmdVars, execVars, sshVars, deployVars, createVars>>

\* line 1393
ResolveSerial ==
    /\ adbpc = "ResolveSerial"
    /\ address' = _resolve_bliss_serial(blissSpec, blissEnv, FALSE)
    /\ IF address'.ok
       THEN adbpc' = "Normalize" /\ adbReply' = adbReply
       ELSE /\ adbpc' = "Done"
            /\ adbReply' = [adbReply EXCEPT !.status = address'.status, !.detail = address'.error]
    /\ UNCHANGED <<blissSpec, blissEnv, adbCalls, adbSteps,
                   cmdVars, execVars, sshVars, deployVars, createVars>>

\* line 1394; the for loop of 1397 ends at once on an empty list
NormalizeCommands ==
    /\ adbpc = "Normalize"
    /\ LET n == _normalize_shell_commands(blissSpec) IN
       IF ~n.ok
       THEN adbpc' = "Done" /\ adbReply' = [adbReply EXCEPT !.status = 400, !.detail = n.error]
       ELSE /\ adbpc' = IF n.commands = <<>> THEN "ShellRespond" ELSE "Shell"
            /\ adbReply' = adbReply
    /\ UNCHANGED <<blissSpec, blissEnv, address, adbCalls, adbSteps,
                   cmdVars, execVars, sshVars, deployVars, createVars>>

Shell == <<"s","h","e","l","l">>
Su == <<"s","u">>
DashC == <<"-","c">>

\* lines 1398-1402
ShellArgs(serial, use_su, cmd) ==
    <<DashS, serial, Shell>> \o (IF use_su THEN <<Su, DashC, cmd>> ELSE <<cmd>>)

\* a loop that goes on after a failed command
BreaksLoop_Never(rc) == FALSE

\* lines 1414-1415
BreaksLoop(rc) == rc # 0

\* lines 1397-1415: one pass of the for loop, for the command after those
\* already run
AdbShell ==
    /\ adbpc = "Shell"
    /\ LET commands == _normalize_shell_commands(blissSpec).commands
           i == Len(adbCalls) + 1
       IN  \E o \in AdbOutcomes :
              /\ adbCalls' = Append(adbCalls,
                                    AdbCall(ShellArgs(address.value, blissSpec.use_su, commands[i]), o))
              /\ IF o.raised
                 THEN /\ adbpc' = "Done"
                      /\ adbSteps' = adbSteps
                      /\ adbReply' = [adbReply EXCEPT !.status = o.status, !.detail = ErrAdb]
                 ELSE /\ adbSteps' = Append(adbSteps,
                                            [command |-> commands[i], rc |-> o.rc,
                                             used_su |-> blissSpec.use_su])
                      /\ adbpc' = IF BreaksLoop(o.rc) \/ i = Len(commands)
                                  THEN "ShellRespond" ELSE "Shell"
                      /\ adbReply' = adbReply
    /\ UNCHANGED <<blissSpec, blissEnv, address,
                   cmdVars, execVars, sshVars, deployVars, createVars>>

\* lines 1417-1418
ShellRespond ==
    /\ adbpc = "ShellRespond"
    /\ adbReply' = [adbReply EXCEPT !.status = 200, !.address = address.value,
                                    !.ok = \A i \in 1..Len(adbSteps) : adbSteps[i].rc = 0,
                                    !.steps = adbSteps]
    /\ adbpc' = "Done"
    /\ UNCHANGED <<blissSpec, blissEnv, address, adbCalls, adbSteps,
                   cmdVars, execVars, sshVars, deployVars, createVars>>

ShellNext ==
    \/ ConstructShellSpec
    \/ ResolveSerial
    \/ NormalizeCommands
    \/ AdbShell
    \/ ShellRespond

\* the commands requests are made of
ShellStrings == {<<"a">>, <<" ","b"," ">>, <<"c"," ","d">>, <<" ">>}

\* how many elements a commands list has at most
MaxShellCommands == 3

ShellInit ==
    /\ \E serial \in {NoneStr, <<"S","N">>, <<"s",".","b">>},
          port \in {NoneVal, Some(0)},
          cmd \in {NoneStr, <<>>, <<"a">>},
          cmds \in {NoneList} \cup SeqsUpTo(ShellStrings, MaxShellCommands),
          su \in BOOLEAN :
          blissSpec = [NoBlissSpec EXCEPT !.serial = serial, !.port = port, !.cmd = cmd,
                                          !.commands = cmds, !.use_su = su]
    /\ \E ea \in {NoneStr, <<"a",":","4">>} :
          blissEnv = [NoBlissEnv EXCEPT !["BLISS_ADB_ADDRESS"] = ea]
    /\ address = NoAddress
    /\ adbCalls = <<>>
    /\ adbSteps = <<>>
    /\ adbReply = NoAdbReply
    /\ adbpc = "ShellRequest"
    /\ CmdIdle
    /\ ExecIdle
    /\ SSHIdle
    /\ DeployIdle
    /\ CreateIdle

SpecShell == ShellInit /\ [][ShellNext]_vars

----------------------------------------------------------------------------
(* Properties of bliss_adb_shell.                                          *)

\* the command list of the request: `commands` when it is given, else `cmd`
CommandList ==
    IF blissSpec.commands # NoneList
    THEN [i \in 1..Len(blissSpec.commands) |-> Strip(blissSpec.commands[i])]
    ELSE <<Strip(blissSpec.cmd)>>

\* the shell command a call hands to adb
CallCommand(c) == c.args[Len(c.args)]

\* the index of the first call that did not return 0, 0 when there is none
FirstFailure ==
    LET bad == {i \in 1..Len(adbCalls) : adbCalls[i].raised \/ adbCalls[i].rc # 0}
    IN  IF bad = {} THEN 0 ELSE CHOOSE i \in bad : \A j \in bad : i <= j

\* bliss_adb_shell has returned its response
ShellReturned == adbpc = "Done" /\ adbReply.status = 200

\* C29: bliss_adb_shell runs the commands in list order, one adb invocation
\* per command, and stops after the first command with a non-zero return
\* code; `steps` is the prefix of the command list up to and including that
\* command, and `ok` is true iff every command of the list was executed and
\* returned 0.
C29_ShellStopsAtFirstFailure ==
    /\ Len(adbCalls) <= Len(CommandList)
    /\ \A i \in 1..Len(adbCalls) :
          /\ CallCommand(adbCalls[i]) = CommandList[i]
          /\ adbCalls[i].args[2] = address.value
    /\ FirstFailure \in {0, Len(adbCalls)}
    /\ ShellReturned =>
          /\ Len(adbReply.steps) = Len(adbCalls)
          /\ \A i \in 1..Len(adbCalls) :
                /\ adbReply.steps[i].command = CommandList[i]
                /\ adbReply.steps[i].rc = adbCalls[i].rc
          /\ FirstFailure = 0 => Len(adbCalls) = Len(CommandList)
          /\ adbReply.ok <=>
                /\ Len(adbReply.steps) = Len(CommandList)
                /\ \A i \in 1..Len(adbReply.steps) : adbReply.steps[i].rc = 0

\* the second of three commands fails, the third one is not run
C29_Witness ==
    /\ ShellReturned
    /\ Len(CommandList) = 3
    /\ Len(adbReply.steps) = 2
    /\ adbReply.steps[1].rc = 0
    /\ adbReply.steps[2].rc = 1
    /\ ~adbReply.ok
----------------------------------------------------------------------------
(* POST /deploy: DeploySpec (319-332) and deploy (1268-1295), with         *)
(* shlex.quote, re.sub and string.Template.safe_substitute computed on     *)
(* the characters.                                                         *)

LowerLetters ==
    {"a", "b", "c", "d", "e", "f", "g", "h", "i", "j", "k", "l", "m",
     "n", "o", "p", "q", "r", "s", "t", "u", "v", "w", "x", "y", "z"}
UpperLetters ==
    {"A", "B", "C", "D", "E", "F", "G", "H", "I", "J", "K", "L", "M",
     "N", "O", "P", "Q", "R", "S", "T", "U", "V", "W", "X", "Y", "Z"}

\* \w of the regular expression of line 1276 (on the ASCII characters)
WordChars == LowerLetters \cup UpperLetters \cup Digits \cup {"_"}

\* the characters shlex.quote leaves unquoted
SafeChars == WordChars \cup {"@", "%", "+", "=", ":", ",", ".", "/", "-"}

\* str.replace("'", "'\"'\"'")
RECURSIVE EscapeQuotes(_)
EscapeQuotes(v) ==
    IF v = <<>> THEN <<>>
    ELSE (IF Head(v) = "'" THEN <<"'", "\"", "'", "\"", "'">> ELSE <<Head(v)>>)
         \o EscapeQuotes(Tail(v))

\* shlex.quote (line 1273)
ShlexQuote(v) ==
    IF v = <<>> THEN <<"'", "'">>
    ELSE IF \A i \in 1..Len(v) : v[i] \in SafeChars THEN v
    ELSE <<"'">> \o EscapeQuotes(v) \o <<"'">>

\* how many characters of `chars` follow one another in c from position i on
RECURSIVE RunLength(_, _, _)
RunLength(c, i, chars) ==
    IF i > Len(c) \/ c[i] \notin chars THEN 0 ELSE 1 + RunLength(c, i + 1, chars)

\* re.sub(r"\{\{(\w+)\}\}", r"${\1}", c) of line 1276: matches are looked for
\* from left to right and do not overlap
RECURSIVE BracesToDollar(_)
BracesToDollar(c) ==
    IF c = <<>> THEN <<>>
    ELSE LET n == RunLength(c, 3, WordChars)
         IN  IF /\ Len(c) >= n + 4
                /\ c[1] = "{" /\ c[2] = "{"
                /\ n >= 1
                /\ c[n + 3] = "}" /\ c[n + 4] = "}"
             THEN <<"$", "{">> \o SubSeq(c, 3, n + 2) \o <<"}">>
                  \o BracesToDollar(SubSeq(c, n + 5, Len(c)))
             ELSE <<Head(c)>> \o BracesToDollar(Tail(c))

RepoUrl == <<"r","e","p","o","_","u","r","l">>
Workdir == <<"w","o","r","k","d","i","r">>

\* the length of the identifier of string.Template that starts at position i
\* of t, 0 when none does: [_a-z][_a-z0-9]* with re.IGNORECASE
IdLength(t, i) ==
    IF i > Len(t) \/ t[i] \in Digits THEN 0 ELSE RunLength(t, i, WordChars)

\* mapping[name] of safe_substitute, or the text of the match when the name
\* is not a key
Substituted(name, ctx, matched) ==
    IF name = RepoUrl THEN ctx.repo_url
    ELSE IF name = Workdir THEN ctx.workdir
    ELSE matched

\* Template(tmpl_str).safe_substitute(safe_ctx) of lines 1277-1278: "$$" is
\* "$", "$name" and "${name}" are the value of name when it is a key, and
\* everything else stays
RECURSIVE SafeSubstitute(_, _)
SafeSubstitute(t, ctx) ==
    IF t = <<>> THEN <<>>
    ELSE IF Head(t) # "$" THEN <<Head(t)>> \o SafeSubstitute(Tail(t), ctx)
    ELSE IF Len(t) >= 2 /\ t[2] = "$"
         THEN <<"$">> \o SafeSubstitute(SubSeq(t, 3, Len(t)), ctx)
    ELSE IF IdLength(t, 2) >= 1
         THEN LET n == IdLength(t, 2)
              IN  Substituted(SubSeq(t, 2, n + 1), ctx, SubSeq(t, 1, n + 1))
                  \o SafeSubstitute(SubSeq(t, n + 2, Len(t)), ctx)
    ELSE IF /\ Len(t) >= 2 /\ t[2] = "{"
            /\ IdLength(t, 3) >= 1
            /\ Len(t) >= IdLength(t, 3) + 3
            /\ t[IdLength(t, 3) + 3] = "}"
         THEN LET n == IdLength(t, 3)
              IN  Substituted(SubSeq(t, 3, n + 2), ctx, SubSeq(t, 1, n + 3))
                  \o SafeSubstitute(SubSeq(t, n + 4, Len(t)), ctx)
    ELSE <<"$">> \o SafeSubstitute(Tail(t), ctx)

\* lines 1272-1273
safe_ctx(spec) ==
    [repo_url |-> ShlexQuote(spec.repo_url), workdir |-> ShlexQuote(spec.workdir)]

\* lines 1275-1278
render(c, spec) == SafeSubstitute(BracesToDollar(c), safe_ctx(spec))

\* a list with `commands` before `setup`
DeployCommands_CommandsFirst(spec) == spec.commands \o spec.setup

\* line 1281
DeployCommands(spec) == spec.setup \o spec.commands

PctExecPrefix == <<"p","c","t"," ","e","x","e","c"," ">>
BashLc == <<" ","-","-"," ","b","a","s","h"," ","-","l","c"," ">>

\* lines 1284-1285
pct_cmd(spec, inner) ==
    PctExecPrefix \o ShlexQuote(IntToStr(spec.target_vmid)) \o BashLc \o ShlexQuote(inner)

\* what subprocess.run does with one step: the remote command ends with a
\* return code, or an exception is raised
RunOutcomes ==
    { [raised |-> FALSE, rc |-> 0], [raised |-> FALSE, rc |-> 1], [raised |-> TRUE, rc |-> 0] }

\* line 1270: (host, user, key), or HTTPException(400) when a setting is missing
RequirePveSsh ==
    /\ deploypc = "Request"
    /\ \E configured \in BOOLEAN :
          IF configured
          THEN deploypc' = "Loop" /\ deployReply' = deployReply
          ELSE deploypc' = "Done" /\ deployReply' = [deployReply EXCEPT !.status = 400]
    /\ UNCHANGED <<deploySpec, deployCalls, deploySteps,
                   cmdVars, execVars, sshVars, adbVars, createVars>>

\* lines 1282-1294: one pass of the for loop, for the command after those
\* already run
DeployStep ==
    /\ deploypc = "Loop"
    /\ Len(deployCalls) < Len(DeployCommands(deploySpec))
    /\ LET c == DeployCommands(deploySpec)[Len(deployCalls) + 1]
           inner == render(c, deploySpec)
       IN  \E o \in RunOutcomes :
              /\ deployCalls' = Append(deployCalls,
                                       [cmd |-> pct_cmd(deploySpec, inner),
                                        raised |-> o.raised, rc |-> o.rc])
              /\ deploySteps' = Append(deploySteps,
                                       [cmd |-> inner, rc |-> IF o.raised THEN -1 ELSE o.rc])
              /\ IF o.raised \/ o.rc # 0
                 THEN /\ deploypc' = "Done"
                      /\ deployReply' = [status |-> 200, ok |-> FALSE, steps |-> deploySteps']
                 ELSE /\ deploypc' = "Loop"
                      /\ deployReply' = deployReply
    /\ UNCHANGED <<deploySpec, cmdVars, execVars, sshVars, adbVars, createVars>>

\* line 1295
DeployReturn ==
    /\ deploypc = "Loop"
    /\ Len(deployCalls) = Len(DeployCommands(deploySpec))
    /\ deploypc' = "Done"
    /\ deployReply' = [status |-> 200, ok |-> TRUE, steps |-> deploySteps]
    /\ UNCHANGED <<deploySpec, deployCalls, deploySteps,
                   cmdVars, execVars, sshVars, adbVars, createVars>>

DeployNext ==
    \/ RequirePveSsh
    \/ DeployStep
    \/ DeployReturn

\* the fragments step commands are put together from
TemplatePieces ==
    { <<"e">>, <<" ">>, <<"{","{">>, <<"}","}">>, <<"$">>,
      <<"{","{">> \o RepoUrl \o <<"}","}">>,
      <<"{","{"," ">> \o RepoUrl \o <<" ","}","}">>,
      <<"{","{">> \o Workdir \o <<"}","}">>,
      <<"{","{">> \o Workdir \o <<" ","}","}">>,
      <<"{","{","x","}","}">>,
      <<"$">> \o Workdir,
      <<"$","{">> \o RepoUrl \o <<"}">> }

\* how many fragments a step command has at most
MaxTemplatePieces == 2

Templates == {Flatten(ps) : ps \in SeqsUpTo(TemplatePieces, MaxTemplatePieces)}

\* the step commands of the requests that vary the lists
StepCommands == {<<"a">>, <<"b"," ">> \o <<"{","{">> \o Workdir \o <<"}","}">>}

\* how many elements setup and commands have at most
MaxSteps == 2

RepoUrls == {<<"u">>, <<"u"," ","v">>, <<"u","'","v">>}

\* requests with one step command, put together from the fragments, and
\* requests with lists of step commands
DeploySpecs ==
    [target_vmid : {101}, repo_url : RepoUrls, workdir : {<<"/","w">>},
     setup : {<<>>}, commands : {<<t>> : t \in Templates}]
    \cup
    [target_vmid : {101}, repo_url : {<<"u">>}, workdir : {<<"/","w">>},
     setup : SeqsUpTo(StepCommands, MaxSteps), commands : SeqsUpTo(StepCommands, MaxSteps)]

DeployInit ==
    /\ deploySpec \in DeploySpecs
    /\ deployCalls = <<>>
    /\ deploySteps = <<>>
    /\ deployReply = NoDeployReply
    /\ deploypc = "Request"
    /\ CmdIdle
    /\ ExecIdle
    /\ SSHIdle
    /\ AdbIdle
    /\ CreateIdle

SpecDeploy == DeployInit /\ [][DeployNext]_vars
----------------------------------------------------------------------------
(* Properties of deploy.                                                   *)

Blanks == {" ", "\t"}

\* the placeholder for repo_url or workdir that starts at position i of c,
\* with or without blanks inside the braces: its length (0 when there is
\* none) and its name
PlaceholderAt(c, i) ==
    LET a == RunLength(c, i + 2, Blanks)
        n == RunLength(c, i + 2 + a, WordChars)
        b == RunLength(c, i + 2 + a + n, Blanks)
        e == i + 2 + a + n + b
        name == SubSeq(c, i + 2 + a, i + 1 + a + n)
    IN  IF /\ e + 1 <= Len(c)
           /\ c[i] = "{" /\ c[i + 1] = "{"
           /\ name \in {RepoUrl, Workdir}
           /\ c[e] = "}" /\ c[e + 1] = "}"
        THEN [len |-> e + 2 - i, name |-> name]
        ELSE [len |-> 0, name |-> <<>>]

\* the command with every such placeholder replaced by the shell-quoted value
RECURSIVE ClaimedRender(_, _)
ClaimedRender(c, spec) ==
    IF c = <<>> THEN <<>>
    ELSE LET ph == PlaceholderAt(c, 1)
         IN  IF ph.len > 0
             THEN ShlexQuote(IF ph.name = RepoUrl THEN spec.repo_url ELSE spec.workdir)
                  \o ClaimedRender(SubSeq(c, ph.len + 1, Len(c)), spec)
             ELSE <<Head(c)>> \o ClaimedRender(Tail(c), spec)

\* every "{{" of the command opens a placeholder for repo_url or workdir, and
\* the command has no "$" of its own
OnlyPlaceholders(c) ==
    /\ ~HasChar(c, "$")
    /\ \A i \in 1..(Len(c) - 1) :
          (c[i] = "{" /\ c[i + 1] = "{") => PlaceholderAt(c, i).len > 0

\* no placeholder of the command has blanks inside its braces
CompactPlaceholders(c) ==
    \A i \in 1..(Len(c) - 1) :
        PlaceholderAt(c, i).len > 0 =>
            PlaceholderAt(c, i).len = Len(PlaceholderAt(c, i).name) + 4

\* the compact form {{name}} is rendered as stated
CompactFormRendered ==
    \A i \in 1..Len(deploySteps) :
        LET c == DeployCommands(deploySpec)[i] IN
        (OnlyPlaceholders(c) /\ CompactPlaceholders(c)) =>
            /\ deploySteps[i].cmd = ClaimedRender(c, deploySpec)
            /\ ~HasSub(deploySteps[i].cmd, <<"{", "{">>)

\* C24: deploy replaces every {{name}} placeholder for repo_url and workdir
\* in each step command with the shell-quoted value, the form with blanks
\* inside the braces included, so that the command recorded in steps[i].cmd
\* contains no "{{".
C24_PlaceholdersRendered ==
    \A i \in 1..Len(deploySteps) :
        LET c == DeployCommands(deploySpec)[i] IN
        OnlyPlaceholders(c) =>
            /\ deploySteps[i].cmd = ClaimedRender(c, deploySpec)
            /\ ~HasSub(deploySteps[i].cmd, <<"{", "{">>)

\* the index of the first step that did not return 0, 0 when there is none
FirstFailedStep ==
    LET bad == {i \in 1..Len(deployCalls) : deployCalls[i].raised \/ deployCalls[i].rc # 0}
    IN  IF bad = {} THEN 0 ELSE CHOOSE i \in bad : \A j \in bad : i <= j

\* deploy has returned its response
DeployReturned == deploypc = "Done" /\ deployReply.status = 200

\* setup followed by commands
AllSteps == deploySpec.setup \o deploySpec.commands

\* C30: deploy executes all setup commands and then all commands, in order,
\* one remote invocation each, and stops at the first step that returns a
\* non-zero code or raises (a step with rc -1); `steps` is a prefix of
\* setup+commands that ends with the failing step, and `ok` is true iff every
\* step of setup+commands was executed and returned 0.
C30_DeployStopsAtFirstFailure ==
    /\ Len(deployCalls) <= Len(AllSteps)
    /\ Len(deploySteps) = Len(deployCalls)
    /\ \A i \in 1..Len(deployCalls) :
          /\ deployCalls[i].cmd = pct_cmd(deploySpec, render(AllSteps[i], deploySpec))
          /\ deploySteps[i].cmd = render(AllSteps[i], deploySpec)
          /\ deploySteps[i].rc = IF deployCalls[i].raised THEN -1 ELSE deployCalls[i].rc
    /\ FirstFailedStep \in {0, Len(deployCalls)}
    /\ DeployReturned =>
          /\ deployReply.steps = deploySteps
          /\ FirstFailedStep = 0 => Len(deploySteps) = Len(AllSteps)
          /\ deployReply.ok <=>
                /\ Len(deployReply.steps) = Len(AllSteps)
                /\ \A i \in 1..Len(deployReply.steps) : deployReply.steps[i].rc = 0

\* both setup commands succeed, the first of the commands raises, the second
\* one is not run
C30_Witness ==
    /\ DeployReturned
    /\ deploySpec.setup = << <<"a">>, <<"b"," ","{","{">> \o Workdir \o <<"}","}">> >>
    /\ Len(deploySpec.commands) = 2
    /\ Len(deployReply.steps) = 3
    /\ deployReply.steps[2].cmd = <<"b"," ","/","w">>
    /\ deployReply.steps[3].rc = -1
    /\ ~deployReply.ok
----------------------------------------------------------------------------
(* POST /lxc/create: CreateLXCReq (196-236), get_proxmox (592-637),        *)
(* _default_node (640-646), _http_500 (546-548), create_lxc (1212-1248).   *)

ErrCores == "cores must be >= 1"
ErrMemory == "memory must be >= 128 MB"
ErrRootfs == "rootfs_gb must be >= 4 GB"

\* lines 214-235: the field validators, the messages of those that fail
CreateLXCReq(body) ==
    (IF body.cores < 1 THEN <<ErrCores>> ELSE <<>>)
    \o (IF body.memory < 128 THEN <<ErrMemory>> ELSE <<>>)
    \o (IF body.rootfs_gb < 4 THEN <<ErrRootfs>> ELSE <<>>)

\* the request body is validated; FastAPI answers 422 when it is not valid
ConstructCreateReq ==
    /\ createpc = "Request"
    /\ IF CreateLXCReq(createReq) = <<>>
       THEN createpc' = "Validated" /\ createReply' = createReply
       ELSE /\ createpc' = "Done"
            /\ createReply' = [createReply EXCEPT !.status = 422, !.detail = CreateLXCReq(createReq)]
    /\ UNCHANGED <<createReq, proxmox, cmdVars, execVars, sshVars, adbVars, deployVars>>

ErrMissingHost == "Missing PROXMOX_HOST"
ErrNoNodes == "No Proxmox nodes available"
CreateFailed == "/lxc/create failed: "

\* lines 546-548, for the detail f"{prefix}{e}"
_http_500(prefix, e) == [status |-> 500, detail |-> <<prefix, e.text>>, created |-> FALSE]

\* lines 1214-1246: what the body of the try block raises, raises = None
\* when it returns
CreateLxcBody(req, prox) ==
    IF ~prox.configured
    THEN [raises |-> "RuntimeError", status |-> 0, text |-> ErrMissingHost]
    ELSE IF req.node \in {None, ""} /\ prox.nodes = <<>>
    THEN [raises |-> "HTTPException", status |-> 500, text |-> ErrNoNodes]
    ELSE prox.post

\* lines 1212-1248
CreateLxc ==
    /\ createpc = "Validated"
    /\ LET e == CreateLxcBody(createReq, proxmox) IN
       createReply' = IF e.raises = None
                      THEN [status |-> 200, detail |-> <<>>, created |-> TRUE]
                      ELSE _http_500(CreateFailed, e)
    /\ createpc' = "Done"
    /\ UNCHANGED <<createReq, proxmox, cmdVars, execVars, sshVars, adbVars, deployVars>>

CreateNext ==
    \/ ConstructCreateReq
    \/ CreateLxc

ErrStorage == "400 Bad Request: Parameter verification failed. - {'storage': ...}"
ErrPermission == "403 Forbidden: Permission check failed"
ErrInternal == "500 Internal Server Error: unable to create CT"
ErrUnreachable == "Connection refused"

\* what prox.nodes(node).lxc.post(**payload) does: it returns the task, or
\* raises ResourceException with the status of the API's answer, or another
\* exception
PostOutcomes ==
    { [raises |-> None, status |-> 0, text |-> None],
      [raises |-> "ResourceException", status |-> 400, text |-> ErrStorage],
      [raises |-> "ResourceException", status |-> 403, text |-> ErrPermission],
      [raises |-> "ResourceException", status |-> 500, text |-> ErrInternal],
      [raises |-> "ConnectionError", status |-> 0, text |-> ErrUnreachable] }

CreateInit ==
    /\ createReq \in [node : {None, "", "pve2"}, vmid : {1234}, cores : {0, 2},
                      memory : {64, 2048}, rootfs_gb : {2, 8}]
    /\ proxmox \in [configured : BOOLEAN, nodes : {<<>>, <<"pve">>}, post : PostOutcomes]
    /\ createReply = NoCreateReply
    /\ createpc = "Request"
    /\ CmdIdle
    /\ ExecIdle
    /\ SSHIdle
    /\ AdbIdle
    /\ DeployIdle

SpecCreate == CreateInit /\ [][CreateNext]_vars

\* create_lxc has ended and the Proxmox API had rejected the creation with
\* a ResourceException
PostRejected ==
    /\ createpc = "Done"
    /\ createReply.status # 422
    /\ CreateLxcBody(createReq, proxmox) = proxmox.post
    /\ proxmox.post.raises = "ResourceException"

\* C25: when the Proxmox API rejects the creation with a ResourceException
\* of status 400, create_lxc raises HTTPException with status 400 (the
\* upstream status, not 500), whose detail contains "/lxc/create failed" and
\* the Proxmox error text.
C25_UpstreamStatusSurfaced ==
    (PostRejected /\ proxmox.post.status = 400) =>
        /\ createReply.status = 400
        /\ createReply.detail = <<CreateFailed, proxmox.post.text>>
====
